---- MODULE Spec2Model ----
(***************************************************************************)
(* excel-diff-tools: the record-number diff engine (core/diff_engine.py)   *)
(* and the update-time filter of the Haritsuke processor.                  *)
(*                                                                         *)
(* Text is a sequence of one-character strings, so that the digit test,    *)
(* the replace calls and the float parse of compare() are computed on the  *)
(* characters.  A cell is a tagged value (null / text / num).  A data      *)
(* frame is a sequence of rows; a filtered frame keeps, with every row,    *)
(* the index label it had in the frame it was filtered from.               *)
(***************************************************************************)
EXTENDS Integers, Sequences, FiniteSets, TLC

VARIABLES
    columns,      \* the shared, ordered column list of old_df and new_df
    old_df,       \* constructor argument old_df: rows, index labels 0..n-1
    new_df,       \* constructor argument new_df
    record_col,   \* self.record_col: <<name>>, or << >> for None
    self_old,     \* self.old_df: sequence of [label, data]
    self_new,     \* self.new_df
    visited,      \* the order in which compare() iterated all_record_numbers
    produced,     \* compare()'s local results after phase 2, before the sort
    results,      \* the list the last completed call returned
    exc,          \* the exception that escaped, "" when none
    changed_cols, \* the list a direct _diff_cells call returned
    df_arg,       \* the caller's dataset handed to normalize_dataframe
    df_ret,       \* what normalize_dataframe(df_arg) returned
    df_ret2,      \* what normalize_dataframe(df_ret) returned
    al_old,       \* the old dataset as handed to align_columns
    al_new,       \* the new dataset as handed to align_columns
    al_old_after, \* the caller's old dataset after align_columns returned
    al_ret,       \* the pair align_columns returned
    old_data,     \* compare_sheets argument old_data
    new_data,     \* compare_sheets argument new_data
    month_diffs,  \* the list compare_sheets returned
    old_value,    \* _determine_change_type argument old_value
    new_value,    \* _determine_change_type argument new_value
    change_type,  \* what _determine_change_type returned
    blk_old,    \* _compare_blocks argument blk_old
    blk_new,    \* _compare_blocks argument blk_new
    blk_diffs,    \* the list _compare_blocks returned
    summary,      \* the dict get_summary(month_diffs) returned
    raw_old,      \* the rows read_sheet gives for the old file
    raw_new,      \* the rows read_sheet gives for the new file
    log,          \* the progress and finished reports of a run, in order
    ret,          \* the triple process() returned, << >> before it returns
    written,      \* whether the output file was saved
    diff_in,      \* the list compare_dataframes returned to process()
    header_df,    \* write_diff_result argument header_df
    ws,           \* the cells of the output sheet _write_header wrote
    pc

\* the state of a DiffEngine run
engineVars == <<columns, old_df, new_df, record_col, self_old, self_new,
                visited, produced, results, changed_cols>>

\* the state of a DataNormalizer call
normVars == <<df_arg, df_ret, df_ret2, al_old, al_new, al_old_after, al_ret>>

\* the state of a MonthlySalesDiffEngine call
monthVars == <<old_data, new_data, month_diffs, old_value, new_value,
               change_type>>

\* the state of the direct calls of the engine's helpers, of the processors,
\* the writer and the worker
runVars == <<raw_old, raw_new, log, ret, written, diff_in>>

\* the state of a MonthlySalesExcelWriter call
headVars == <<header_df, ws>>

appVars == <<blk_old, blk_new, blk_diffs, summary, runVars, headVars>>

vars == <<engineVars, normVars, monthVars, appVars, exc, pc>>

-----------------------------------------------------------------------------
(* Bounds of the model *)

\* most rows in old_df and new_df together, per family of inputs
MaxRichRows == 3

MaxGroupRows == 4

MaxSortRows == 3

\* most fractional digits of a record number the float parse keeps exactly
MaxFrac == 1

\* most characters of the texts drawn over the whole alphabet
MaxTextLen == 3

\* most rows of the two-column datasets handed to normalize_dataframe
MaxNormRows == 2

\* most rows of the two datasets handed to align_columns, together
MaxAlignRows == 2

\* most rows of a month block in the sheets of one month
MaxBlockRows == 2

-----------------------------------------------------------------------------
(* Text *)

Digits == <<"0", "1", "2", "3", "4", "5", "6", "7", "8", "9">>

DigitSet == {Digits[i] : i \in 1..10}

DigitVal(ch) == (CHOOSE i \in 1..10 : Digits[i] = ch) - 1

RECURSIVE Pow10(_)
Pow10(k) == IF k = 0 THEN 1 ELSE 10 * Pow10(k - 1)

\* str.isdigit(): non-empty and every character a digit
IsDigit(s) == Len(s) > 0 /\ \A i \in 1..Len(s) : s[i] \in DigitSet

\* s.replace(ch, '', 1): s without the first occurrence of ch
Replace1(s, ch) ==
    IF \E i \in 1..Len(s) : s[i] = ch
    THEN LET p == CHOOSE i \in 1..Len(s) :
                      s[i] = ch /\ \A j \in 1..(i - 1) : s[j] # ch
         IN  SubSeq(s, 1, p - 1) \o SubSeq(s, p + 1, Len(s))
    ELSE s

\* str(n) of a non-negative int
RECURSIVE NatToStr(_)
NatToStr(n) ==
    IF n < 10 THEN <<Digits[n + 1]>>
    ELSE NatToStr(n \div 10) \o <<Digits[(n % 10) + 1]>>

\* str(n) of an int
IntToStr(n) == IF n < 0 THEN <<"-">> \o NatToStr(-n) ELSE NatToStr(n)

RECURSIVE DigitsVal(_)
DigitsVal(s) ==
    IF Len(s) = 0 THEN 0
    ELSE 10 * DigitsVal(SubSeq(s, 1, Len(s) - 1)) + DigitVal(s[Len(s)])

HasSign(s) == Len(s) > 0 /\ s[1] \in {"-", "+"}

Unsigned(s) == IF HasSign(s) THEN Tail(s) ELSE s

\* float(s) does not raise ValueError.  Over the alphabet of the record
\* numbers (digits, '.', '-', '+' and letters that spell no exponent, inf or nan):
\* an optional sign, then digits with at most one '.', at least one digit.
FloatParses(s) ==
    LET u == Unsigned(s)
        d == Replace1(u, ".")
    IN  IsDigit(d)

\* float(s), scaled by 10^MaxFrac
FloatVal(s) ==
    LET u    == Unsigned(s)
        dot  == IF \E i \in 1..Len(u) : u[i] = "."
                THEN CHOOSE i \in 1..Len(u) : u[i] = "." ELSE Len(u) + 1
        ip   == SubSeq(u, 1, dot - 1)
        fp   == SubSeq(u, dot + 1, Len(u))
        fk   == IF Len(fp) > MaxFrac THEN SubSeq(fp, 1, MaxFrac) ELSE fp
        mag  == DigitsVal(ip) * Pow10(MaxFrac)
                  + DigitsVal(fk) * Pow10(MaxFrac - Len(fk))
    IN  IF HasSign(s) /\ s[1] = "-" THEN -mag ELSE mag

-----------------------------------------------------------------------------
(* Cells *)

Null == [tag |-> "null", s |-> << >>, n |-> 0]

Text(t) == [tag |-> "text", s |-> t, n |-> 0]

Num(k) == [tag |-> "num", s |-> << >>, n |-> k]

\* pd.isna(value)
isna(v) == v.tag = "null"

\* str(value) of a non-null cell
str(v) == IF v.tag = "num" THEN IntToStr(v.n) ELSE v.s

-----------------------------------------------------------------------------
(* Optional values and DiffResult *)

None == [some |-> FALSE, val |-> << >>]

Some(x) == [some |-> TRUE, val |-> x]

DiffResult(ri, ct, od, nd, cc, rn) ==
    [row_index |-> ri, change_type |-> ct, old_data |-> od, new_data |-> nd,
     changed_columns |-> cc, record_number |-> rn]

RECORD_NUMBER_COL_INDEX == 1

\* the first two names stand for the two Japanese column names of the list
update_time_columns ==
    {"KoushinNichiji", "KoushinBi", "UpdateTime", "UpdateDate"}

-----------------------------------------------------------------------------
(* DiffEngine *)

ColPos(name) == CHOOSE i \in 1..Len(columns) : columns[i] = name

\* the cell of `row` in the record-number column
RecCell(row) == row[ColPos(record_col[1])]

\* old_df.columns[RECORD_NUMBER_COL_INDEX] when there is such a column
RecordColOf(cols) ==
    IF Len(cols) > RECORD_NUMBER_COL_INDEX
    THEN <<cols[RECORD_NUMBER_COL_INDEX + 1]>>
    ELSE << >>

\* one cell of the mask  df[col].notna() & (df[col] != '')
KeepRow(row, rc) == ~isna(row[rc]) /\ ~(row[rc].tag = "text" /\ row[rc].s = << >>)

\* df with its index labels 0..n-1
Labelled(df) == [i \in 1..Len(df) |-> [label |-> i - 1, data |-> df[i]]]

\* df[mask].copy(): the kept rows, each with the label it had in df
FilterFrame(df, rc) ==
    SelectSeq(Labelled(df), LAMBDA r : KeepRow(r.data, rc))

\* _diff_cells comparing the values themselves, not their str()
diff_cells_RawCompare(old_row, new_row) ==
    LET cols == SelectSeq([i \in 1..Len(old_row) |-> i],
                    LAMBDA i :
                        IF isna(old_row[i]) /\ isna(new_row[i]) THEN FALSE
                        ELSE IF isna(old_row[i]) \/ isna(new_row[i]) THEN TRUE
                        ELSE old_row[i] # new_row[i])
    IN  [k \in 1..Len(cols) |-> columns[cols[k]]]

\* _diff_cells(old_row, new_row): the names of the changed columns
diff_cells(old_row, new_row) ==
    LET cols == SelectSeq([i \in 1..Len(old_row) |-> i],
                    LAMBDA i :
                        IF isna(old_row[i]) /\ isna(new_row[i]) THEN FALSE
                        ELSE IF isna(old_row[i]) \/ isna(new_row[i]) THEN TRUE
                        ELSE str(old_row[i]) # str(new_row[i]))
    IN  [k \in 1..Len(cols) |-> columns[cols[k]]]

\* the key _group_by_record_number files a row under
KeyOf(row) == IF ~isna(RecCell(row)) THEN str(RecCell(row)) ELSE << >>

\* _group_by_record_number(df): key -> the labels of its rows, in row order
group_by_record_number(df) ==
    LET keys == {KeyOf(df[i].data) : i \in 1..Len(df)}
    IN  [k \in keys |->
            LET sel == SelectSeq(df, LAMBDA r : KeyOf(r.data) = k)
            IN  [i \in 1..Len(sel) |-> sel[i].label]]

\* df.iloc[i] does not raise IndexError
InBounds(df, i) == i < Len(df)

\* df.iloc[i]: the row at POSITION i
iloc(df, i) == df[i + 1].data


\* PairResults without the test  if changed_cols:
PairResults_NoEmptyCheck(old_rows, new_rows, n, record_num) ==
    [k \in 1..n |->
        DiffResult(0, "changed", Some(old_rows[k]), Some(new_rows[k]),
                   Some(diff_cells(old_rows[k], new_rows[k])), record_num)]

\* the 'changed' results of the first n positional pairs
PairResults(old_rows, new_rows, n, record_num) ==
    LET idx == SelectSeq([i \in 1..n |-> i],
                   LAMBDA i : diff_cells(old_rows[i], new_rows[i]) # << >>)
    IN  [k \in 1..Len(idx) |->
            DiffResult(0, "changed", Some(old_rows[idx[k]]),
                       Some(new_rows[idx[k]]),
                       Some(diff_cells(old_rows[idx[k]], new_rows[idx[k]])),
                       record_num)]

\* the 'deleted' results of old_rows[from..]
DeletedResults(old_rows, from, record_num) ==
    [k \in 1..(Len(old_rows) - from + 1) |->
        DiffResult(0, "deleted", Some(old_rows[from + k - 1]), None, None,
                   record_num)]

\* the 'added' results of new_rows[from..]
AddedResults(new_rows, from, record_num) ==
    [k \in 1..(Len(new_rows) - from + 1) |->
        DiffResult(0, "added", None, Some(new_rows[from + k - 1]), None,
                   record_num)]

\* _compare_within_group(old_indices, new_indices, record_num) of an engine
\* whose frames are so (self.old_df) and sn (self.new_df)
compare_within_group(so, sn, old_indices, new_indices, record_num) ==
    LET old_rows == [i \in 1..Len(old_indices) |-> iloc(so, old_indices[i])]
        new_rows == [i \in 1..Len(new_indices) |-> iloc(sn, new_indices[i])]
    IN  IF Len(old_rows) = Len(new_rows)
        THEN PairResults(old_rows, new_rows, Len(old_rows), record_num)
        ELSE IF Len(old_rows) > Len(new_rows)
        THEN PairResults(old_rows, new_rows, Len(new_rows), record_num)
               \o DeletedResults(old_rows, Len(new_rows) + 1, record_num)
        ELSE PairResults(old_rows, new_rows, Len(old_rows), record_num)
               \o AddedResults(new_rows, Len(old_rows) + 1, record_num)

\* groups.get(record_num, [])
GroupGet(groups, record_num) ==
    IF record_num \in DOMAIN groups THEN groups[record_num] ELSE << >>

\* some iloc of the loop body for record_num raises IndexError
KeyRaises(so, sn, old_groups, new_groups, record_num) ==
    \/ \E i \in 1..Len(GroupGet(old_groups, record_num)) :
          ~InBounds(so, GroupGet(old_groups, record_num)[i])
    \/ \E i \in 1..Len(GroupGet(new_groups, record_num)) :
          ~InBounds(sn, GroupGet(new_groups, record_num)[i])

\* the results one pass of the phase 2 loop body appends for record_num
KeyResults(so, sn, old_groups, new_groups, record_num) ==
    LET old_rows == GroupGet(old_groups, record_num)
        new_rows == GroupGet(new_groups, record_num)
    IN  IF old_rows = << >> /\ new_rows # << >>
        THEN AddedResults([i \in 1..Len(new_rows) |-> iloc(sn, new_rows[i])],
                          1, record_num)
        ELSE IF old_rows # << >> /\ new_rows = << >>
        THEN DeletedResults([i \in 1..Len(old_rows) |-> iloc(so, old_rows[i])],
                            1, record_num)
        ELSE compare_within_group(so, sn, old_rows, new_rows, record_num)

\* phase 2 over the keys in the order the set yields them
RECURSIVE Phase2(_, _, _, _, _)
Phase2(so, sn, old_groups, new_groups, order) ==
    IF order = << >> THEN << >>
    ELSE KeyResults(so, sn, old_groups, new_groups, Head(order))
           \o Phase2(so, sn, old_groups, new_groups, Tail(order))

\* every sequence that lists each element of S once
RECURSIVE Perms(_)
Perms(S) ==
    IF S = {} THEN {<< >>}
    ELSE UNION {{<<x>> \o p : p \in Perms(S \ {x})} : x \in S}

\* the orders in which iterating set(old) | set(new) can yield the keys: the
\* order of a set of str follows the hashes, which vary from run to run
IterationOrders(S) == Perms(S)

\* the digit test of phase 3 on one record number
LooksNumeric(rn) == IsDigit(Replace1(Replace1(rn, "."), "-"))

\* all(... for r in results if r.record_number)
all_numeric(res) ==
    \A i \in 1..Len(res) :
        res[i].record_number # << >> => LooksNumeric(res[i].record_number)

\* the sort key: float(r.record_number) if r.record_number else 0
SortKey(r) == IF r.record_number # << >> THEN FloatVal(r.record_number) ELSE 0

\* computing some sort key raises ValueError
SortKeyRaises(res) ==
    \E i \in 1..Len(res) :
        res[i].record_number # << >> /\ ~FloatParses(res[i].record_number)

\* InsertDesc placing r ahead of the elements of equal key (an unstable sort)
RECURSIVE InsertDesc_TiesFirst(_, _)
InsertDesc_TiesFirst(r, sorted) ==
    IF sorted = << >> THEN <<r>>
    ELSE IF SortKey(Head(sorted)) > SortKey(r)
         THEN <<Head(sorted)>> \o InsertDesc_TiesFirst(r, Tail(sorted))
         ELSE <<r>> \o sorted

\* r placed into a list that is in descending key order, after the elements
\* whose key is not smaller
RECURSIVE InsertDesc(_, _)
InsertDesc(r, sorted) ==
    IF sorted = << >> THEN <<r>>
    ELSE IF SortKey(Head(sorted)) >= SortKey(r)
         THEN <<Head(sorted)>> \o InsertDesc(r, Tail(sorted))
         ELSE <<r>> \o sorted

\* list.sort(key=..., reverse=True): descending, equal keys keep their order
RECURSIVE SortDesc(_)
SortDesc(res) ==
    IF res = << >> THEN << >>
    ELSE InsertDesc(res[Len(res)], SortDesc(SubSeq(res, 1, Len(res) - 1)))

\* Phase3 without the except clause: the ValueError of a sort key escapes
Phase3_NoExcept(res) ==
    IF all_numeric(res)
    THEN IF SortKeyRaises(res)
         THEN [exc |-> "ValueError", list |-> res]
         ELSE [exc |-> "", list |-> SortDesc(res)]
    ELSE [exc |-> "", list |-> res]

\* phase 3, the try block around the sort: the exception that escapes it and
\* the list it leaves (a ValueError of a sort key is caught, the list as it was)
Phase3(res) ==
    IF all_numeric(res) /\ ~SortKeyRaises(res)
    THEN [exc |-> "", list |-> SortDesc(res)]
    ELSE [exc |-> "", list |-> res]

\* Renumber counting from 0 (enumerate without start=1)
Renumber_FromZero(res) ==
    [i \in 1..Len(res) |-> [res[i] EXCEPT !.row_index = i - 1]]

\* phase 4: row_index = 1..N in list order
Renumber(res) == [i \in 1..Len(res) |-> [res[i] EXCEPT !.row_index = i]]

\* compare() of an engine whose frames are so and sn, iterating the keys in
\* `order`: the exception that escapes, the list after phase 2, the list returned
CompareOutcome(so, sn, order) ==
    LET old_groups == group_by_record_number(so)
        new_groups == group_by_record_number(sn)
        all_record_numbers == DOMAIN old_groups \cup DOMAIN new_groups
    IN  IF \E k \in all_record_numbers :
               KeyRaises(so, sn, old_groups, new_groups, k)
        THEN [exc |-> "IndexError", produced |-> << >>, results |-> << >>]
        ELSE LET p2 == Phase2(so, sn, old_groups, new_groups, order)
                 p3 == Phase3(p2)
             IN  [exc |-> p3.exc, produced |-> p2,
                  results |-> IF p3.exc = "" THEN Renumber(p3.list) ELSE << >>]

\* set(old_groups.keys()) | set(new_groups.keys())
AllRecordNumbers(so, sn) ==
    DOMAIN group_by_record_number(so) \cup DOMAIN group_by_record_number(sn)

-----------------------------------------------------------------------------
(* HaritsukeProcessor.process: the update-time filter *)

\* has_other_changes with all(...) in the place of any(...)
has_other_changes_All(result) ==
    \A i \in 1..Len(result.changed_columns.val) :
        result.changed_columns.val[i] \notin update_time_columns

\* any(col not in update_time_columns for col in result.changed_columns)
has_other_changes(result) ==
    \E i \in 1..Len(result.changed_columns.val) :
        result.changed_columns.val[i] \notin update_time_columns

\* filtered_results: what the loop over diff_results keeps
FilterUpdateTime(diff_results) ==
    SelectSeq(diff_results,
              LAMBDA r : IF r.change_type = "changed"
                         THEN has_other_changes(r) ELSE TRUE)

-----------------------------------------------------------------------------
(* Inputs *)

Columns3 == <<"A", "B", "UpdateTime">>

Columns1 == <<"A">>

\* rows that differ in both data columns, few record numbers
RichRows ==
    {<<a, b, u>> : a \in {Null, Text(<<"x">>)},
                   b \in {Null, Text(<<"2">>), Text(<<"1", "0">>)},
                   u \in {Text(<<"t">>), Text(<<"u">>)}}

\* rows of one record number, or none (null or empty), for the longer groups
GroupRows ==
    {<<a, b, u>> : a \in {Null},
                   b \in {Null, Text(<< >>), Text(<<"2">>)},
                   u \in {Text(<<"t">>), Text(<<"u">>)}}

\* rows that differ in the record number only: numbers of several shapes, a
\* name, and text that passes the digit test and is no number
SortRows ==
    {<<a, b, u>> : a \in {Null},
                   b \in {Text(<<"2">>), Text(<<"1", "0">>), Text(<<"-", "1">>),
                          Text(<<"2", ".", "5">>), Text(<<"R">>),
                          Text(<<"1", "-", "2">>)},
                   u \in {Text(<<"t">>)}}

Rows1 == {<<a>> : a \in {Null, Text(<<"x">>)}}

\* no DataNormalizer call is under way
NormIdle ==
    /\ df_arg = << >>
    /\ df_ret = << >>
    /\ df_ret2 = << >>
    /\ al_old = << >>
    /\ al_new = << >>
    /\ al_old_after = << >>
    /\ al_ret = << >>

\* no MonthlySalesDiffEngine call is under way
MonthIdle ==
    /\ old_data = << >>
    /\ new_data = << >>
    /\ month_diffs = << >>
    /\ old_value = << >>
    /\ new_value = << >>
    /\ change_type = ""

\* no processor or worker runs
RunIdle ==
    /\ raw_old = << >>
    /\ raw_new = << >>
    /\ log = << >>
    /\ ret = << >>
    /\ written = FALSE
    /\ diff_in = << >>

\* no MonthlySalesExcelWriter call is under way
HeadIdle ==
    /\ header_df = << >>
    /\ ws = << >>

\* no helper, processor, writer or worker is under way
AppIdle ==
    /\ blk_old = << >>
    /\ blk_new = << >>
    /\ blk_diffs = << >>
    /\ summary = << >>
    /\ RunIdle
    /\ HeadIdle

\* old_df and new_df are frames over `rows` with at most `max` rows together
InitWith(cols, rows, max) ==
    /\ columns = cols
    /\ \E k \in 0..max : \E j \in 0..(max - k) :
          /\ old_df \in [1..k -> rows]
          /\ new_df \in [1..j -> rows]
    /\ record_col = << >>
    /\ self_old = << >>
    /\ self_new = << >>
    /\ visited = << >>
    /\ produced = << >>
    /\ results = << >>
    /\ exc = ""
    /\ changed_cols = << >>
    /\ NormIdle
    /\ MonthIdle
    /\ AppIdle
    /\ pc = "start"

Init ==
    \/ InitWith(Columns3, RichRows, MaxRichRows)
    \/ InitWith(Columns3, GroupRows, MaxGroupRows)
    \/ InitWith(Columns3, SortRows, MaxSortRows)
    \/ InitWith(Columns1, Rows1, MaxRichRows)

-----------------------------------------------------------------------------
(* Actions *)

\* DiffEngine.__init__(old_df, new_df)
Construct ==
    /\ pc = "start"
    /\ record_col' = RecordColOf(columns)
    /\ IF RecordColOf(columns) # << >>
       THEN /\ self_old' = FilterFrame(old_df, RECORD_NUMBER_COL_INDEX + 1)
            /\ self_new' = FilterFrame(new_df, RECORD_NUMBER_COL_INDEX + 1)
       ELSE /\ self_old' = Labelled(old_df)
            /\ self_new' = Labelled(new_df)
    /\ pc' = "constructed"
    /\ UNCHANGED <<columns, old_df, new_df, visited, produced, results, exc,
                   changed_cols, normVars, monthVars, appVars>>

\* DiffEngine.compare()
Compare ==
    /\ pc = "constructed"
    /\ IF record_col = << >>
       THEN \* _compare_without_record_number()
            /\ results' = << >>
            /\ pc' = "done"
            /\ UNCHANGED <<visited, produced, exc>>
       ELSE \E order \in IterationOrders(AllRecordNumbers(self_old, self_new)) :
              LET out == CompareOutcome(self_old, self_new, order)
              IN  /\ visited' = order
                  /\ produced' = out.produced
                  /\ results' = out.results
                  /\ exc' = out.exc
                  /\ pc' = IF out.exc = "" THEN "done" ELSE "raised"
    /\ UNCHANGED <<columns, old_df, new_df, record_col, self_old, self_new,
                   changed_cols, normVars, monthVars, appVars>>

\* HaritsukeProcessor.process, from the diff results to the list for the writer
HaritsukeFilter ==
    /\ pc = "done"
    /\ results' = Renumber(FilterUpdateTime(results))
    /\ pc' = "filtered"
    /\ UNCHANGED <<columns, old_df, new_df, record_col, self_old, self_new,
                   visited, produced, exc, changed_cols, normVars, monthVars, appVars>>

\* a direct call _diff_cells(old_row, new_row) on the rows of two one-row frames
DiffCellsCall ==
    /\ pc = "cells"
    /\ changed_cols' = diff_cells(old_df[1], new_df[1])
    /\ pc' = "cells_done"
    /\ UNCHANGED <<columns, old_df, new_df, record_col, self_old, self_new,
                   visited, produced, results, exc, normVars, monthVars, appVars>>

Next == Construct \/ Compare \/ HaritsukeFilter

Spec == Init /\ [][Next]_vars

\* cells of every kind: null, empty text, text, a number and the text of it
CellVals == {Null, Text(<< >>), Text(<<"x">>), Text(<<"1">>), Num(1)}

CellRows == {<<a, b, u>> : a \in CellVals, b \in CellVals, u \in CellVals}

InitCells ==
    /\ columns = Columns3
    /\ old_df \in [1..1 -> CellRows]
    /\ new_df \in [1..1 -> CellRows]
    /\ record_col = << >>
    /\ self_old = << >>
    /\ self_new = << >>
    /\ visited = << >>
    /\ produced = << >>
    /\ results = << >>
    /\ exc = ""
    /\ changed_cols = << >>
    /\ NormIdle
    /\ MonthIdle
    /\ AppIdle
    /\ pc = "cells"

NextCells == DiffCellsCall

\* _diff_cells as a function of two rows
SpecCells == InitCells /\ [][NextCells]_vars

-----------------------------------------------------------------------------
(* DataNormalizer: text *)

\* str.strip() on the left: the alphabet's only whitespace is ' '
RECURSIVE LStrip(_)
LStrip(s) == IF s # << >> /\ Head(s) = " " THEN LStrip(Tail(s)) ELSE s

\* str.strip() on the right
RECURSIVE RStrip(_)
RStrip(s) ==
    IF s # << >> /\ s[Len(s)] = " " THEN RStrip(SubSeq(s, 1, Len(s) - 1)) ELSE s

\* value.strip()
strip(s) == RStrip(LStrip(s))

\* '.' in s
HasDot(s) == \E i \in 1..Len(s) : s[i] = "."

\* k times '0'
Zeros(k) == [i \in 1..k |-> "0"]

RECURSIVE StripLeadingZeros(_)
StripLeadingZeros(d) ==
    IF d # << >> /\ Head(d) = "0" THEN StripLeadingZeros(Tail(d)) ELSE d

RECURSIVE StripTrailingZeros(_)
StripTrailingZeros(d) ==
    IF d # << >> /\ d[Len(d)] = "0"
    THEN StripTrailingZeros(SubSeq(d, 1, Len(d) - 1)) ELSE d

IsNegative(s) == Len(s) > 0 /\ s[1] = "-"

\* int(s) does not raise ValueError: an optional sign, then digits (the
\* alphabet has no '_' and s is already stripped)
IntParses(s) == IsDigit(Unsigned(s))

\* str(int(s)): no '+', no leading zeros, no '-' on zero
int_str(s) ==
    LET d == StripLeadingZeros(Unsigned(s))
    IN  IF d = << >> THEN <<"0">>
        ELSE IF IsNegative(s) THEN <<"-">> \o d ELSE d

\* the place of the exponent mark in u, Len(u) + 1 when there is none
ExpPos(u) ==
    IF \E i \in 1..Len(u) : u[i] \in {"e", "E"}
    THEN CHOOSE i \in 1..Len(u) :
             u[i] \in {"e", "E"} /\ \A j \in 1..(i - 1) : u[j] \notin {"e", "E"}
    ELSE Len(u) + 1

Mantissa(s) == SubSeq(Unsigned(s), 1, ExpPos(Unsigned(s)) - 1)

Exponent(s) == SubSeq(Unsigned(s), ExpPos(Unsigned(s)) + 1, Len(Unsigned(s)))

\* float(s) does not raise ValueError, exponent forms included: an optional
\* sign, digits with at most one '.', then optionally 'e' and a signed integer
\* (the alphabet spells neither inf nor nan)
float_parses(s) ==
    /\ IsDigit(Replace1(Mantissa(s), "."))
    /\ ExpPos(Unsigned(s)) <= Len(Unsigned(s)) => IntParses(Exponent(s))

\* the value of a signed integer text
SignedVal(s) ==
    IF s = << >> THEN 0
    ELSE IF IsNegative(s) THEN -DigitsVal(Unsigned(s)) ELSE DigitsVal(Unsigned(s))

\* the place of the '.' in a mantissa, Len(m) + 1 when there is none
DotPos(m) ==
    IF HasDot(m) THEN CHOOSE i \in 1..Len(m) : m[i] = "." ELSE Len(m) + 1

\* the digits of a mantissa without its '.'
MantissaDigits(m) ==
    SubSeq(m, 1, DotPos(m) - 1) \o SubSeq(m, DotPos(m) + 1, Len(m))

\* the number of digits of a mantissa behind its '.'
FractionLen(m) == Len(SubSeq(m, DotPos(m) + 1, Len(m)))

\* the digits d1 times 10^e0 with the trailing zeros of d1 moved into the power
Scaled(d1, e0) ==
    [d |-> StripTrailingZeros(d1),
     e |-> e0 + (Len(d1) - Len(StripTrailingZeros(d1)))]

\* float(s) as digits d and a power of ten e, value d * 10^e, with d free of
\* leading and trailing zeros (d empty for zero).  Exact for the doubles of
\* the model: at most 15 significant digits, magnitude below 10^15.
float_digits(s) ==
    Scaled(StripLeadingZeros(MantissaDigits(Mantissa(s))),
           SignedVal(Exponent(s)) - FractionLen(Mantissa(s)))

\* f.is_integer() of the float f given by its digits and power
IsIntegral(f) == f.d = << >> \/ f.e >= 0

\* float_val.is_integer()
is_integer(s) == IsIntegral(float_digits(s))

\* two digits at least, as in the exponent of a float's repr
Pad2(n) == IF n < 10 THEN <<"0">> \o NatToStr(n) ELSE NatToStr(n)

\* str(int(f)) of the integral float f, negative or not
IntRepr(negative, f) ==
    IF f.d = << >> THEN <<"0">>
    ELSE (IF negative THEN <<"-">> ELSE << >>) \o f.d \o Zeros(f.e)

\* str(int(float_val)) of an integral float
float_int_str(s) == IntRepr(IsNegative(s), float_digits(s))

\* str(f) of the non-integral float f: the shortest repr, positional when the
\* decimal exponent is at least -4, else d.ddde-XX
FloatRepr(negative, f) ==
    LET n     == Len(f.d)
        decpt == Len(f.d) + f.e
    IN  (IF negative THEN <<"-">> ELSE << >>)
          \o (IF decpt - 1 < -4
              THEN <<f.d[1]>>
                     \o (IF n > 1 THEN <<".">> \o SubSeq(f.d, 2, n) ELSE << >>)
                     \o <<"e", "-">> \o Pad2(1 - decpt)
              ELSE IF decpt <= 0
              THEN <<"0", ".">> \o Zeros(-decpt) \o f.d
              ELSE SubSeq(f.d, 1, decpt) \o <<".">> \o SubSeq(f.d, decpt + 1, n))

\* str(float_val) of a non-integral float
float_str(s) == FloatRepr(IsNegative(s), float_digits(s))

-----------------------------------------------------------------------------
(* DataNormalizer: cells *)

\* a float of value h/2 (every such double is exact)
Flt(h) == [tag |-> "float", s |-> << >>, n |-> h]

\* a pd.Timestamp, n seconds after 2024-01-01 00:00:00, within that month
Ts(n) == [tag |-> "ts", s |-> << >>, n |-> n]

\* the values series.replace([...], pd.NA) turns into NA
NullTokens ==
    {<< >>, <<"N", "o", "n", "e">>, <<"n", "o", "n", "e">>,
     <<"N", "U", "L", "L">>, <<"n", "u", "l", "l">>}

\* the two replace calls of _normalize_column on one cell
replace_na(v) == IF v.tag = "text" /\ v.s \in NullTokens THEN Null ELSE v

\* the try block of _normalize_value on the trimmed text: the exception it
\* raises and the value it returns
try_numeric(trimmed) ==
    IF ~HasDot(trimmed)
    THEN IF IntParses(trimmed)
         THEN [exc |-> "", val |-> int_str(trimmed)]
         ELSE [exc |-> "ValueError", val |-> << >>]
    ELSE IF ~float_parses(trimmed)
         THEN [exc |-> "ValueError", val |-> << >>]
         ELSE IF is_integer(trimmed)
              THEN [exc |-> "", val |-> float_int_str(trimmed)]
              ELSE [exc |-> "", val |-> float_str(trimmed)]

\* str(value) of an int or a float
number_str(v) ==
    IF v.tag = "num" THEN IntToStr(v.n)
    ELSE IF v.n % 2 = 0 THEN IntToStr(v.n \div 2)
    ELSE (IF v.n < 0 THEN <<"-">> ELSE << >>)
           \o NatToStr((IF v.n < 0 THEN -v.n ELSE v.n) \div 2) \o <<".", "5">>

\* value.strftime('%Y-%m-%d %H:%M:%S')
strftime(v) ==
    <<"2", "0", "2", "4", "-", "0", "1", "-">> \o Pad2(v.n \div 86400 + 1)
      \o <<" ">> \o Pad2((v.n % 86400) \div 3600)
      \o <<":">> \o Pad2((v.n % 3600) \div 60)
      \o <<":">> \o Pad2(v.n % 60)

\* the try block without its except clause: the ValueError escapes
except_clause_Missing(trimmed, t) == [exc |-> t.exc, val |-> Text(t.val)]

\* except (ValueError, AttributeError): return trimmed ; t is what the try
\* block raised or returned
except_clause(trimmed, t) ==
    IF t.exc = "ValueError" THEN [exc |-> "", val |-> Text(trimmed)]
    ELSE [exc |-> "", val |-> Text(t.val)]

\* the str branch of _normalize_value on the trimmed text
normalize_text(trimmed) ==
    IF trimmed = << >> THEN [exc |-> "", val |-> Null]
    ELSE except_clause(trimmed, try_numeric(trimmed))

\* _normalize_value(value): the exception that escapes and the value returned
normalize_value(value) ==
    IF isna(value) THEN [exc |-> "", val |-> Null]
    ELSE IF value.tag = "text" THEN normalize_text(strip(value.s))
    ELSE IF value.tag \in {"num", "float"}
    THEN [exc |-> "", val |-> Text(number_str(value))]
    ELSE [exc |-> "", val |-> Text(strftime(value))]

\* the loop body of _normalize_column on a cell r the replace calls left
normalize_replaced(r) ==
    IF isna(r) THEN [exc |-> "", val |-> Null] ELSE normalize_value(r)

\* one cell of _normalize_column: replace, then NA or _normalize_value
normalize_cell(v) == normalize_replaced(replace_na(v))

\* a dataset: its column list and its rows, each row a tuple over the columns
Frame(cols, rows) == [cols |-> cols, rows |-> rows]

\* the dataset built of the normalized cells, or the exception of one of them
CollectColumns(cols, cells) ==
    IF \E i \in 1..Len(cells) : \E c \in 1..Len(cols) : cells[i][c].exc # ""
    THEN [exc |-> "ValueError", df |-> << >>]
    ELSE [exc |-> "",
          df |-> Frame(cols, [i \in 1..Len(cells) |->
                                [c \in 1..Len(cols) |-> cells[i][c].val]])]

\* normalize_dataframe(df): the exception that escapes and the dataset returned
normalize_dataframe(df) ==
    CollectColumns(df.cols,
        [i \in 1..Len(df.rows) |->
            [c \in 1..Len(df.cols) |-> normalize_cell(df.rows[i][c])]])

-----------------------------------------------------------------------------
(* DataNormalizer.align_columns *)

\* col in df.columns
HasCol(df, col) == \E i \in 1..Len(df.cols) : df.cols[i] = col

CellOf(df, row, col) ==
    df.rows[row][CHOOSE i \in 1..Len(df.cols) : df.cols[i] = col]

\* old_df after the loop  old_df[col] = pd.NA : each column of new that old
\* lacks is appended, in new's order, NA on every row.  The loop assigns into
\* the caller's object.
add_missing_columns(old, new) ==
    LET missing == SelectSeq(new.cols, LAMBDA c : ~HasCol(old, c))
    IN  Frame(old.cols \o missing,
              [i \in 1..Len(old.rows) |->
                  old.rows[i] \o [k \in 1..Len(missing) |-> Null]])

\* select_columns that keeps the order the columns have in df
select_columns_KeepOrder(df, new_columns) ==
    LET kept == SelectSeq(df.cols,
                  LAMBDA c : \E k \in 1..Len(new_columns) : new_columns[k] = c)
    IN  Frame(kept,
              [i \in 1..Len(df.rows) |->
                  [k \in 1..Len(kept) |-> CellOf(df, i, kept[k])]])

\* df[new_columns]: the named columns in the given order, all rows
select_columns(df, new_columns) ==
    Frame(new_columns,
          [i \in 1..Len(df.rows) |->
              [k \in 1..Len(new_columns) |-> CellOf(df, i, new_columns[k])]])

\* align_columns(old_df, new_df): the pair returned
align_columns(old, new) ==
    <<select_columns(add_missing_columns(old, new), new.cols), new>>

-----------------------------------------------------------------------------
(* DataNormalizer: inputs, actions *)

NormAlphabet == {" ", "0", "1", "5", ".", "-", "+", "e"}

\* every text over the alphabet, up to MaxTextLen characters
ShortTexts == UNION {[1..n -> NormAlphabet] : n \in 0..MaxTextLen}

\* null-like tokens in several cases, bare and with whitespace around them,
\* and numbers and names longer than the short texts
LongTexts ==
    {<<"N", "o", "n", "e">>, <<"n", "o", "n", "e">>, <<"N", "O", "N", "E">>,
     <<"N", "U", "L", "L">>, <<"n", "u", "l", "l">>, <<"N", "u", "l", "l">>,
     <<" ", "n", "u", "l", "l", " ">>, <<"N", "o", "n", "e", " ">>,
     <<" ", " ", "a", "b", "c", " ", " ">>, <<"a", " ", "b">>,
     <<"2", ".", "5", "0">>, <<" ", "1", ".", "0", " ">>, <<"0", "0", "7">>,
     <<"-", "0", ".", "0">>, <<"0", "0", ".", "5", "0">>,
     <<"1", "e", "5">>, <<"1", ".", "e", "5">>, <<"1", ".", "5", "e", "3">>,
     <<"1", ".", "5", "E", "3">>, <<"1", ".", "e", "-", "5">>,
     <<"1", "5", ".", "e", "-", "5">>, <<"0", ".", "0", "0", "0", "1">>,
     <<"1", "2", ".", "5">>, <<"1", ".", "5", ".", "5">>, <<"1", ".", "x">>}

\* ints, floats (integral and not) and timestamps
OtherCells ==
    {Num(0), Num(7), Num(-3), Flt(4), Flt(5), Flt(-1), Flt(-25),
     Ts(0), Ts(86400 + 3 * 3600 + 4 * 60 + 5), Ts(30 * 86400 + 86399)}

NormCells == {Null} \cup {Text(t) : t \in ShortTexts \cup LongTexts} \cup OtherCells

\* cells for the datasets of several rows and columns
FewCells ==
    {Null, Text(<<" ", "x">>), Text(<<"1", ".", "0">>), Text(<<"n", "u", "l", "l">>),
     Flt(5)}

\* a one-cell dataset over every cell, or a two-column dataset over a few
InitNorm ==
    /\ \/ \E v \in NormCells : df_arg = Frame(<<"A">>, <<<<v>>>>)
       \/ \E k \in 0..MaxNormRows :
             \E rows \in [1..k -> FewCells \X FewCells] :
                 df_arg = Frame(<<"A", "B">>, rows)
    /\ df_ret = << >>
    /\ df_ret2 = << >>
    /\ al_old = << >>
    /\ al_new = << >>
    /\ al_old_after = << >>
    /\ al_ret = << >>
    /\ columns = << >>
    /\ old_df = << >>
    /\ new_df = << >>
    /\ record_col = << >>
    /\ self_old = << >>
    /\ self_new = << >>
    /\ visited = << >>
    /\ produced = << >>
    /\ results = << >>
    /\ changed_cols = << >>
    /\ MonthIdle
    /\ AppIdle
    /\ exc = ""
    /\ pc = "norm"

\* a call of normalize_dataframe ends: by returning, at `returned`, or by the
\* exception of out
NormalizeEnds(out, returned) ==
    /\ exc' = out.exc
    /\ pc' = IF out.exc = "" THEN returned ELSE "raised"

\* df_ret = DataNormalizer.normalize_dataframe(df_arg); the function works on
\* df.copy(), the caller's dataset is not written
Normalize ==
    /\ pc = "norm"
    /\ NormalizeEnds(normalize_dataframe(df_arg), "norm_once")
    /\ df_ret' = normalize_dataframe(df_arg).df
    /\ UNCHANGED <<df_arg, df_ret2, al_old, al_new, al_old_after, al_ret,
                   engineVars, monthVars, appVars>>

\* df_ret2 = DataNormalizer.normalize_dataframe(df_ret)
NormalizeAgain ==
    /\ pc = "norm_once"
    /\ NormalizeEnds(normalize_dataframe(df_ret), "norm_twice")
    /\ df_ret2' = normalize_dataframe(df_ret).df
    /\ UNCHANGED <<df_arg, df_ret, al_old, al_new, al_old_after, al_ret,
                   engineVars, monthVars, appVars>>

NextNorm == Normalize \/ NormalizeAgain

\* normalize_dataframe on a dataset, and again on what it returned
SpecNorm == InitNorm /\ [][NextNorm]_vars

AlignNames == {"A", "B", "C"}

\* the column lists: every list of distinct names
ColumnLists ==
    {cl \in UNION {[1..n -> AlignNames] : n \in 0..3} :
        \A i, j \in 1..Len(cl) : i # j => cl[i] # cl[j]}

AlignCells == {Null, Text(<<"x">>)}

\* every dataset over the column list cl with k rows
FramesOver(cl, k) ==
    {Frame(cl, rows) : rows \in [1..k -> [1..Len(cl) -> AlignCells]]}

\* two datasets over any two column lists, MaxAlignRows rows together at most
InitAlign ==
    /\ \E co \in ColumnLists : \E cn \in ColumnLists :
          \E k \in 0..MaxAlignRows : \E j \in 0..(MaxAlignRows - k) :
              /\ al_old \in FramesOver(co, k)
              /\ al_new \in FramesOver(cn, j)
    /\ al_old_after = << >>
    /\ al_ret = << >>
    /\ df_arg = << >>
    /\ df_ret = << >>
    /\ df_ret2 = << >>
    /\ columns = << >>
    /\ old_df = << >>
    /\ new_df = << >>
    /\ record_col = << >>
    /\ self_old = << >>
    /\ self_new = << >>
    /\ visited = << >>
    /\ produced = << >>
    /\ results = << >>
    /\ changed_cols = << >>
    /\ MonthIdle
    /\ AppIdle
    /\ exc = ""
    /\ pc = "align"

\* al_ret = DataNormalizer.align_columns(al_old, al_new); the loop over the
\* missing columns assigns into the caller's old dataset
Align ==
    /\ pc = "align"
    /\ al_ret' = align_columns(al_old, al_new)
    /\ al_old_after' = add_missing_columns(al_old, al_new)
    /\ pc' = "aligned"
    /\ UNCHANGED <<al_old, al_new, df_arg, df_ret, df_ret2, engineVars,
                   monthVars, appVars, exc>>

NextAlign == Align

\* align_columns on two datasets
SpecAlign == InitAlign /\ [][NextAlign]_vars

-----------------------------------------------------------------------------
(* MonthlySalesDiffEngine *)

\* a cell of a month block: NaN, or a float given in thousandths
NaN == [nan |-> TRUE, v |-> 0]

Val(x) == [nan |-> FALSE, v |-> x]

\* self.tolerance = 0.01, in thousandths
tolerance == 10

\* current_col = 3: the first output column of the first block
FirstBlockColumn == 3

\* the output columns one block takes
BlockWidth == 4

\* the column names of a month block (the names stand for the four Japanese
\* names the reader assigns)
MetricColumns == <<"Uriage", "GaibuGenka", "NaibuGenka", "EigyoRieki">>

MonthlySalesCellDiff(ri, cn, ov, nv, ct) ==
    [row_index |-> ri, column_name |-> cn, old_value |-> ov, new_value |-> nv,
     change_type |-> ct]

MonthlySalesMonthDiff(mn, cr, cd) ==
    [month_name |-> mn, column_range |-> cr, cell_diffs |-> cd]

Abs(x) == IF x < 0 THEN -x ELSE x

\* value is None or value == 0
NoneOrZero(value) == value.nan \/ value.v = 0

\* _determine_change_type with  abs(diff) < self.tolerance
determine_change_type_StrictTolerance(ov, nv) ==
    IF NoneOrZero(ov) /\ NoneOrZero(nv) THEN "unchanged"
    ELSE LET diff == (IF nv.nan THEN 0 ELSE nv.v) - (IF ov.nan THEN 0 ELSE ov.v)
         IN  IF Abs(diff) < tolerance THEN "unchanged"
             ELSE IF diff > 0 THEN "increased"
             ELSE "decreased"

\* _determine_change_type(old_value, new_value); None is the NaN cell
determine_change_type(ov, nv) ==
    IF NoneOrZero(ov) /\ NoneOrZero(nv) THEN "unchanged"
    ELSE LET diff == (IF nv.nan THEN 0 ELSE nv.v) - (IF ov.nan THEN 0 ELSE ov.v)
         IN  IF Abs(diff) <= tolerance THEN "unchanged"
             ELSE IF diff > 0 THEN "increased"
             ELSE "decreased"

\* the value read at (row_idx, column) of a block: None past the last row
BlockValue(block, row_idx, col) ==
    IF row_idx < Len(block) THEN block[row_idx + 1][col] ELSE NaN

Max(a, b) == IF a > b THEN a ELSE b

\* _compare_blocks that records the cells other than unchanged only
compare_blocks_ChangedOnly(ob, nb) ==
    SelectSeq([k \in 1..(Max(Len(ob), Len(nb)) * Len(MetricColumns)) |->
                  MonthlySalesCellDiff((k - 1) \div Len(MetricColumns),
                      MetricColumns[((k - 1) % Len(MetricColumns)) + 1],
                      BlockValue(ob, (k - 1) \div Len(MetricColumns),
                                 ((k - 1) % Len(MetricColumns)) + 1),
                      BlockValue(nb, (k - 1) \div Len(MetricColumns),
                                 ((k - 1) % Len(MetricColumns)) + 1),
                      determine_change_type(
                          BlockValue(ob, (k - 1) \div Len(MetricColumns),
                                     ((k - 1) % Len(MetricColumns)) + 1),
                          BlockValue(nb, (k - 1) \div Len(MetricColumns),
                                     ((k - 1) % Len(MetricColumns)) + 1)))],
              LAMBDA cd : cd.change_type # "unchanged")

\* _compare_blocks(old_block, new_block): one cell diff per row and column
compare_blocks(old_block, new_block) ==
    LET max_rows == Max(Len(old_block), Len(new_block))
        ncols    == Len(MetricColumns)
    IN  [k \in 1..(max_rows * ncols) |->
            LET row_idx == (k - 1) \div ncols
                col     == ((k - 1) % ncols) + 1
                ov      == BlockValue(old_block, row_idx, col)
                nv      == BlockValue(new_block, row_idx, col)
            IN  MonthlySalesCellDiff(row_idx, MetricColumns[col], ov, nv,
                                     determine_change_type(ov, nv))]

\* any(cd.change_type != 'unchanged' for cd in cell_diffs)
has_changes(cell_diffs) ==
    \E k \in 1..Len(cell_diffs) : cell_diffs[k].change_type # "unchanged"

\* the loop of compare_sheets with the test  if has_changes  left out
RECURSIVE compare_months_KeepUnchanged(_, _, _, _)
compare_months_KeepUnchanged(old_blocks, new_blocks, ordered_months, current_col) ==
    IF ordered_months = << >> THEN << >>
    ELSE LET month_name == Head(ordered_months)
             cell_diffs == compare_blocks(old_blocks[month_name],
                                          new_blocks[month_name])
         IN  <<MonthlySalesMonthDiff(month_name,
                    <<current_col, current_col + 3>>, cell_diffs)>>
               \o compare_months_KeepUnchanged(old_blocks, new_blocks,
                      Tail(ordered_months), current_col + BlockWidth)

\* the loop of compare_sheets with  current_col += 4  moved out of the test
RECURSIVE compare_months_AlwaysAdvance(_, _, _, _)
compare_months_AlwaysAdvance(old_blocks, new_blocks, ordered_months, current_col) ==
    IF ordered_months = << >> THEN << >>
    ELSE LET month_name == Head(ordered_months)
             cell_diffs == compare_blocks(old_blocks[month_name],
                                          new_blocks[month_name])
         IN  (IF has_changes(cell_diffs)
              THEN <<MonthlySalesMonthDiff(month_name,
                         <<current_col, current_col + 3>>, cell_diffs)>>
              ELSE << >>)
               \o compare_months_AlwaysAdvance(old_blocks, new_blocks,
                      Tail(ordered_months), current_col + BlockWidth)

\* the loop of compare_sheets over ordered_months, from current_col on
RECURSIVE compare_months(_, _, _, _)
compare_months(old_blocks, new_blocks, ordered_months, current_col) ==
    IF ordered_months = << >> THEN << >>
    ELSE LET month_name == Head(ordered_months)
             cell_diffs == compare_blocks(old_blocks[month_name],
                                          new_blocks[month_name])
         IN  IF has_changes(cell_diffs)
             THEN <<MonthlySalesMonthDiff(month_name,
                        <<current_col, current_col + 3>>, cell_diffs)>>
                    \o compare_months(old_blocks, new_blocks,
                           Tail(ordered_months), current_col + BlockWidth)
             ELSE compare_months(old_blocks, new_blocks,
                      Tail(ordered_months), current_col)

\* compare_sheets(old_data, new_data)
compare_sheets(od, nd) ==
    LET common_months  == DOMAIN od.month_blocks \cap DOMAIN nd.month_blocks
        ordered_months == SelectSeq(nd.month_order, LAMBDA m : m \in common_months)
    IN  compare_months(od.month_blocks, nd.month_blocks, ordered_months,
                       FirstBlockColumn)

\* what read_sheet returns, as far as the engine reads it
SheetData(blocks, order) == [month_blocks |-> blocks, month_order |-> order]

MonthLabels == {"M1", "M2", "M3"}

\* one-row blocks: a base, one within the tolerance of it, one beyond
SampleBlocks ==
    {<<<<Val(100000), Val(0), NaN, Val(5000)>>>>,
     <<<<Val(100005), NaN, Val(0), Val(5000)>>>>,
     <<<<Val(100020), Val(0), NaN, Val(5000)>>>>}

\* the month orders a sheet with the labels S can declare: every label of S
\* in some order; a label stands twice when the sheet repeats it
MonthOrders(S) ==
    {o \in UNION {[1..n -> S] : n \in 1..Cardinality(MonthLabels)} :
        {o[i] : i \in 1..Len(o)} = S}

\* sheets over the labels, each block one of the sample blocks
LabelSheets ==
    UNION {{SheetData(blocks, order) :
                blocks \in [S -> SampleBlocks], order \in MonthOrders(S)} :
           S \in (SUBSET MonthLabels) \ {{}}}

\* rows for the blocks of several rows
SampleRows ==
    {<<NaN, Val(0), NaN, Val(0)>>,
     <<Val(100000), Val(0), NaN, Val(-10)>>,
     <<Val(100005), NaN, Val(0), Val(0)>>,
     <<Val(100020), Val(0), Val(0), NaN>>}

\* sheets of the one month M1 with a block of k rows
RowSheets(k) ==
    {SheetData([m \in {"M1"} |-> block], <<"M1">>) :
        block \in [1..k -> SampleRows]}

InitMonthWith(olds, news) ==
    /\ old_data \in olds
    /\ new_data \in news
    /\ month_diffs = << >>
    /\ old_value = << >>
    /\ new_value = << >>
    /\ change_type = ""
    /\ NormIdle
    /\ AppIdle
    /\ columns = << >>
    /\ old_df = << >>
    /\ new_df = << >>
    /\ record_col = << >>
    /\ self_old = << >>
    /\ self_new = << >>
    /\ visited = << >>
    /\ produced = << >>
    /\ results = << >>
    /\ changed_cols = << >>
    /\ exc = ""
    /\ pc = "sheets"

InitMonth ==
    \/ InitMonthWith(LabelSheets, LabelSheets)
    \/ \E k \in 0..MaxBlockRows : \E j \in 0..MaxBlockRows :
          InitMonthWith(RowSheets(k), RowSheets(j))

\* month_diffs = engine.compare_sheets(old_data, new_data)
CompareSheets ==
    /\ pc = "sheets"
    /\ month_diffs' = compare_sheets(old_data, new_data)
    /\ pc' = "sheets_done"
    /\ UNCHANGED <<old_data, new_data, old_value, new_value, change_type,
                   engineVars, normVars, appVars, exc>>

NextMonth == CompareSheets

\* compare_sheets on two sheets
SpecMonth == InitMonth /\ [][NextMonth]_vars

\* None, zero, values at and about the tolerance, and the values about 100
ChangeValues ==
    {NaN, Val(0), Val(5), Val(10), Val(-10), Val(11), Val(-11), Val(20),
     Val(100000), Val(100005), Val(100020)}

InitChange ==
    /\ old_value \in ChangeValues
    /\ new_value \in ChangeValues
    /\ change_type = ""
    /\ old_data = << >>
    /\ new_data = << >>
    /\ month_diffs = << >>
    /\ NormIdle
    /\ AppIdle
    /\ columns = << >>
    /\ old_df = << >>
    /\ new_df = << >>
    /\ record_col = << >>
    /\ self_old = << >>
    /\ self_new = << >>
    /\ visited = << >>
    /\ produced = << >>
    /\ results = << >>
    /\ changed_cols = << >>
    /\ exc = ""
    /\ pc = "change"

\* change_type = engine._determine_change_type(old_value, new_value)
DetermineChangeType ==
    /\ pc = "change"
    /\ change_type' = determine_change_type(old_value, new_value)
    /\ pc' = "change_done"
    /\ UNCHANGED <<old_value, new_value, old_data, new_data, month_diffs,
                   engineVars, normVars, appVars, exc>>

NextChange == DetermineChangeType

\* _determine_change_type as a function of two values
SpecChange == InitChange /\ [][NextChange]_vars

-----------------------------------------------------------------------------
(* MonthlySalesDiffEngine._compare_blocks, called directly *)

\* no DiffEngine exists
EngineIdle ==
    /\ columns = << >>
    /\ old_df = << >>
    /\ new_df = << >>
    /\ record_col = << >>
    /\ self_old = << >>
    /\ self_new = << >>
    /\ visited = << >>
    /\ produced = << >>
    /\ results = << >>
    /\ changed_cols = << >>

\* old_block and new_block: blocks of 0..MaxBlockRows rows of the four metrics
InitBlocks ==
    /\ \E k \in 0..MaxBlockRows : blk_old \in [1..k -> SampleRows]
    /\ \E j \in 0..MaxBlockRows : blk_new \in [1..j -> SampleRows]
    /\ blk_diffs = << >>
    /\ summary = << >>
    /\ HeadIdle
    /\ RunIdle
    /\ EngineIdle
    /\ NormIdle
    /\ MonthIdle
    /\ exc = ""
    /\ pc = "blocks"

\* cell_diffs = engine._compare_blocks(old_block, new_block)
CompareBlocks ==
    /\ pc = "blocks"
    /\ blk_diffs' = compare_blocks(blk_old, blk_new)
    /\ pc' = "blocks_done"
    /\ UNCHANGED <<blk_old, blk_new, summary, runVars, engineVars, normVars,
                   monthVars, exc, headVars>>

NextBlocks == CompareBlocks

\* _compare_blocks on two blocks
SpecBlocks == InitBlocks /\ [][NextBlocks]_vars

-----------------------------------------------------------------------------
(* MonthlySalesDiffEngine.get_summary *)

\* the three counters before the loops
ZeroCounts == [total_changed |-> 0, total_increased |-> 0, total_decreased |-> 0]

\* the loop body of get_summary with an else branch that counts the cell too
count_cell_CountUnchanged(acc, cd) ==
    IF cd.change_type = "increased"
    THEN [acc EXCEPT !.total_increased = @ + 1, !.total_changed = @ + 1]
    ELSE IF cd.change_type = "decreased"
    THEN [acc EXCEPT !.total_decreased = @ + 1, !.total_changed = @ + 1]
    ELSE [acc EXCEPT !.total_changed = @ + 1]

\* the loop body of get_summary: the counters after one cell diff
count_cell(acc, cd) ==
    IF cd.change_type = "increased"
    THEN [acc EXCEPT !.total_increased = @ + 1, !.total_changed = @ + 1]
    ELSE IF cd.change_type = "decreased"
    THEN [acc EXCEPT !.total_decreased = @ + 1, !.total_changed = @ + 1]
    ELSE acc

\* for cell_diff in month_diff.cell_diffs
RECURSIVE count_cells(_, _)
count_cells(acc, cds) ==
    IF cds = << >> THEN acc
    ELSE count_cells(count_cell(acc, Head(cds)), Tail(cds))

\* for month_diff in month_diffs
RECURSIVE count_months(_, _)
count_months(acc, mds) ==
    IF mds = << >> THEN acc
    ELSE count_months(count_cells(acc, Head(mds).cell_diffs), Tail(mds))

\* the dict get_summary returns, given the counters after the loops
SummaryDict(mds, acc) ==
    [total_months        |-> Len(mds),
     total_changed_cells |-> acc.total_changed,
     total_increased     |-> acc.total_increased,
     total_decreased     |-> acc.total_decreased,
     months              |-> [i \in 1..Len(mds) |-> mds[i].month_name]]

\* get_summary(month_diffs)
get_summary(mds) == SummaryDict(mds, count_months(ZeroCounts, mds))

\* summary = engine.get_summary(month_diffs), on what compare_sheets returned
GetSummary ==
    /\ pc = "sheets_done"
    /\ summary' = get_summary(month_diffs)
    /\ pc' = "summary_done"
    /\ UNCHANGED <<blk_old, blk_new, blk_diffs, runVars, engineVars, normVars,
                   monthVars, exc, headVars>>

NextSummary == CompareSheets \/ GetSummary

\* compare_sheets, then get_summary on its result
SpecSummary == InitMonth /\ [][NextSummary]_vars

-----------------------------------------------------------------------------
(* HaritsukeProcessor.process *)

\* a failure return that hands back an empty list in the place of None
Failure_EmptyList(message) ==
    [output_path |-> None, diff_results |-> Some(<< >>),
     error_message |-> message]

\* return None, None, message
Failure(message) ==
    [output_path |-> None, diff_results |-> None, error_message |-> message]

\* return output_path, diff_results, ""
Success(output_path, diff_results) ==
    [output_path |-> Some(output_path), diff_results |-> Some(diff_results),
     error_message |-> ""]

\* progress_callback(value, message), as far as the value goes
Progress(value) == [signal |-> "progress", value |-> value]

\* the messages of the failure returns (the words stand for the Japanese
\* texts, each of which is not empty)
OldReadError == "old file read error"

NewReadError == "new file read error"

NoDifferences == "no differences"

ProcessingError == "error while processing"

\* the two files of a run: sheets of the three columns; a sheet without data
\* rows is one read_sheet refuses
InitRun(start) ==
    /\ \/ \E k \in 0..MaxRichRows : \E j \in 0..(MaxRichRows - k) :
             /\ raw_old \in [1..k -> RichRows]
             /\ raw_new \in [1..j -> RichRows]
       \/ \E k \in 0..MaxGroupRows : \E j \in 0..(MaxGroupRows - k) :
             /\ raw_old \in [1..k -> GroupRows]
             /\ raw_new \in [1..j -> GroupRows]
    /\ columns = Columns3
    /\ old_df = << >>
    /\ new_df = << >>
    /\ record_col = << >>
    /\ self_old = << >>
    /\ self_new = << >>
    /\ visited = << >>
    /\ produced = << >>
    /\ results = << >>
    /\ changed_cols = << >>
    /\ log = << >>
    /\ ret = << >>
    /\ written = FALSE
    /\ diff_in = << >>
    /\ blk_old = << >>
    /\ blk_new = << >>
    /\ blk_diffs = << >>
    /\ summary = << >>
    /\ HeadIdle
    /\ NormIdle
    /\ MonthIdle
    /\ exc = ""
    /\ pc = start

InitHaritsuke == InitRun("h_start")

\* read_sheet of one file: it gives the rows, or None when the sheet has no
\* data rows or the file cannot be read
ReadOutcomes(raw) == IF raw = << >> THEN {FALSE} ELSE BOOLEAN

\* Step 1 of process(): progress 20, the two read_sheet calls
HRead ==
    /\ pc = "h_start"
    /\ log' = Append(log, Progress(20))
    /\ \E old_ok \in ReadOutcomes(raw_old) : \E new_ok \in ReadOutcomes(raw_new) :
          IF ~old_ok
          THEN ret' = Failure(OldReadError) /\ pc' = "h_returned"
          ELSE IF ~new_ok
          THEN ret' = Failure(NewReadError) /\ pc' = "h_returned"
          ELSE ret' = ret /\ pc' = "h_read"
    /\ UNCHANGED <<raw_old, raw_new, written, diff_in, blk_old, blk_new,
                   blk_diffs, summary, engineVars, normVars, monthVars, exc, headVars>>

\* the end of step 2, given what the two normalize_dataframe calls gave: the
\* aligned pair, or the return of the except clause
HNormalizeEnds(old_out, new_out) ==
    IF old_out.exc # "" \/ new_out.exc # ""
    THEN /\ ret' = Failure(ProcessingError)
         /\ pc' = "h_returned"
         /\ UNCHANGED <<old_df, new_df>>
    ELSE /\ old_df' = align_columns(old_out.df, new_out.df)[1].rows
         /\ new_df' = align_columns(old_out.df, new_out.df)[2].rows
         /\ ret' = ret
         /\ pc' = "h_norm"

\* Step 2 of process(): progress 40, normalize_dataframe twice, align_columns
HNormalize ==
    /\ pc = "h_read"
    /\ log' = Append(log, Progress(40))
    /\ HNormalizeEnds(normalize_dataframe(Frame(columns, raw_old)),
                      normalize_dataframe(Frame(columns, raw_new)))
    /\ UNCHANGED <<columns, record_col, self_old, self_new, visited, produced,
                   results, changed_cols, raw_old, raw_new, written, diff_in,
                   blk_old, blk_new, blk_diffs, summary, normVars, monthVars,
                   exc, headVars>>

\* Step 3 of process(), first half: progress 60 and, inside
\* compare_dataframes, the constructor of the engine
HConstruct ==
    /\ pc = "h_norm"
    /\ log' = Append(log, Progress(60))
    /\ record_col' = RecordColOf(columns)
    /\ IF RecordColOf(columns) # << >>
       THEN /\ self_old' = FilterFrame(old_df, RECORD_NUMBER_COL_INDEX + 1)
            /\ self_new' = FilterFrame(new_df, RECORD_NUMBER_COL_INDEX + 1)
       ELSE /\ self_old' = Labelled(old_df)
            /\ self_new' = Labelled(new_df)
    /\ pc' = "h_constructed"
    /\ UNCHANGED <<columns, old_df, new_df, visited, produced, results,
                   changed_cols, raw_old, raw_new, ret, written, diff_in,
                   blk_old, blk_new, blk_diffs, summary, normVars, monthVars,
                   exc, headVars>>

\* the end of step 3, given what compare() raised or returned: the except
\* clause, or the update-time filter, the renumbering and the empty test
HCompareEnds(out) ==
    IF out.exc # ""
    THEN /\ ret' = Failure(ProcessingError)
         /\ pc' = "h_returned"
         /\ UNCHANGED <<diff_in, results, headVars>>
    ELSE /\ diff_in' = out.results
         /\ results' = Renumber(FilterUpdateTime(out.results))
         /\ IF FilterUpdateTime(out.results) = << >>
            THEN ret' = Failure(NoDifferences) /\ pc' = "h_returned"
            ELSE ret' = ret /\ pc' = "h_filtered"

\* Step 3 of process(), second half: compare() and lines 86-116
HCompare ==
    /\ pc = "h_constructed"
    /\ IF record_col = << >>
       THEN HCompareEnds([exc |-> "", produced |-> << >>, results |-> << >>])
       ELSE \E order \in IterationOrders(AllRecordNumbers(self_old, self_new)) :
               HCompareEnds(CompareOutcome(self_old, self_new, order))
    /\ UNCHANGED <<columns, old_df, new_df, record_col, self_old, self_new,
                   visited, produced, changed_cols, raw_old, raw_new, log,
                   written, blk_old, blk_new, blk_diffs, summary, normVars,
                   monthVars, exc, headVars>>

\* step 4 with progress 100 reported ahead of the writer call
HWrite_ReportsFirst ==
    /\ pc = "h_filtered"
    /\ log' = log \o <<Progress(80), Progress(100)>>
    /\ \E saved \in BOOLEAN :
          IF saved
          THEN written' = TRUE /\ ret' = Success("out.xlsx", results)
          ELSE written' = FALSE /\ ret' = Failure(ProcessingError)
    /\ pc' = "h_returned"
    /\ UNCHANGED <<raw_old, raw_new, diff_in, blk_old, blk_new, blk_diffs,
                   summary, engineVars, normVars, monthVars, exc, headVars>>

\* Step 4 of process(): progress 80, the writer saves the file or raises;
\* after the save, progress 100 and the success return
HWrite ==
    /\ pc = "h_filtered"
    /\ \E saved \in BOOLEAN :
          IF saved
          THEN /\ written' = TRUE
               /\ log' = log \o <<Progress(80), Progress(100)>>
               /\ ret' = Success("out.xlsx", results)
          ELSE /\ written' = FALSE
               /\ log' = Append(log, Progress(80))
               /\ ret' = Failure(ProcessingError)
    /\ pc' = "h_returned"
    /\ UNCHANGED <<raw_old, raw_new, diff_in, blk_old, blk_new, blk_diffs,
                   summary, engineVars, normVars, monthVars, exc, headVars>>

NextHaritsuke == HRead \/ HNormalize \/ HConstruct \/ HCompare \/ HWrite

\* one run of HaritsukeProcessor.process
SpecHaritsuke == InitHaritsuke /\ [][NextHaritsuke]_vars

-----------------------------------------------------------------------------
(* MonthlySalesProcessor.process *)

\* the messages of the failure returns of the monthly processor (words for
\* the Japanese texts, each of which is not empty)
OldFileError == "old file error"

OldSheetError == "old file sheet error"

NewFileError == "new file error"

NewSheetError == "new file sheet error"

NoCommonMonths == "no common months"

MonthlyProcessingError == "monthly sheet processing error"

\* the sheets of a run of the monthly processor: one or two of the months
\* M1 and M2, each declared once or twice
RunSheets ==
    {s \in LabelSheets : /\ DOMAIN s.month_blocks \subseteq {"M1", "M2"}
                         /\ Len(s.month_order) <= 2}

InitMonthly ==
    /\ old_data \in RunSheets
    /\ new_data \in RunSheets
    /\ month_diffs = << >>
    /\ old_value = << >>
    /\ new_value = << >>
    /\ change_type = ""
    /\ blk_old = << >>
    /\ blk_new = << >>
    /\ blk_diffs = << >>
    /\ summary = << >>
    /\ HeadIdle
    /\ RunIdle
    /\ EngineIdle
    /\ NormIdle
    /\ exc = ""
    /\ pc = "m_start"

\* what step 1 can come to: one of the four validations fails, read_sheet
\* raises on one of the files, or both sheets are read
ReadSteps ==
    {OldFileError, OldSheetError, NewFileError, NewSheetError,
     MonthlyProcessingError, ""}

\* Step 1 of process(): progress 20, validate_file and validate_sheet on
\* both files, read_sheet on both
MRead ==
    /\ pc = "m_start"
    /\ log' = Append(log, Progress(20))
    /\ \E failed \in ReadSteps :
          IF failed # ""
          THEN ret' = Failure(failed) /\ pc' = "m_returned"
          ELSE ret' = ret /\ pc' = "m_read"
    /\ UNCHANGED <<raw_old, raw_new, written, diff_in, blk_old, blk_new,
                   blk_diffs, summary, engineVars, normVars, monthVars, exc, headVars>>

\* the end of step 2, given what compare_sheets returned: lines 81-90
MCompareEnds(diffs) ==
    /\ month_diffs' = diffs
    /\ IF DOMAIN old_data.month_blocks \cap DOMAIN new_data.month_blocks = {}
       THEN ret' = Failure(NoCommonMonths) /\ pc' = "m_returned"
       ELSE IF diffs = << >>
       THEN ret' = Failure(NoDifferences) /\ pc' = "m_returned"
       ELSE ret' = ret /\ pc' = "m_compared"

\* Step 2 of process(): progress 60, compare_sheets, the two empty tests
MCompare ==
    /\ pc = "m_read"
    /\ log' = Append(log, Progress(60))
    /\ MCompareEnds(compare_sheets(old_data, new_data))
    /\ UNCHANGED <<old_data, new_data, old_value, new_value, change_type,
                   raw_old, raw_new, written, diff_in, blk_old, blk_new,
                   blk_diffs, summary, engineVars, normVars, exc, headVars>>

\* the SimpleNamespace built of one cell diff
UiResult(month_name, cd) ==
    [month |-> month_name, row |-> cd.row_index + 7, column |-> cd.column_name,
     change_type |-> "changed", original_change_type |-> cd.change_type,
     old_value |-> cd.old_value, new_value |-> cd.new_value]

\* the results of one month: its cell diffs other than unchanged
MonthUiResults(md) ==
    LET changed == SelectSeq(md.cell_diffs,
                             LAMBDA cd : cd.change_type # "unchanged")
    IN  [k \in 1..Len(changed) |-> UiResult(md.month_name, changed[k])]

\* diff_results of lines 111-129
RECURSIVE UiResults(_)
UiResults(mds) ==
    IF mds = << >> THEN << >>
    ELSE MonthUiResults(Head(mds)) \o UiResults(Tail(mds))

\* Steps 3 to 5 of process(): progress 80, the writer saves the file or
\* raises; after the save, get_summary, the results for the UI, progress 100
\* and the success return
MWrite ==
    /\ pc = "m_compared"
    /\ \E saved \in BOOLEAN :
          IF saved
          THEN /\ written' = TRUE
               /\ summary' = get_summary(month_diffs)
               /\ log' = log \o <<Progress(80), Progress(100)>>
               /\ ret' = Success("out.xlsx", UiResults(month_diffs))
          ELSE /\ written' = FALSE
               /\ summary' = summary
               /\ log' = Append(log, Progress(80))
               /\ ret' = Failure(MonthlyProcessingError)
    /\ pc' = "m_returned"
    /\ UNCHANGED <<raw_old, raw_new, diff_in, blk_old, blk_new, blk_diffs,
                   engineVars, normVars, monthVars, exc, headVars>>

NextMonthly == MRead \/ MCompare \/ MWrite

-----------------------------------------------------------------------------
(* DiffWorker.run *)

\* self.finished.emit(result, error_msg)
Finished(result, error_msg) ==
    [signal |-> "finished", result |-> result, error_msg |-> error_msg]

\* error_msg = None of the last emit, which the str argument of the signal
\* carries as the empty text
NoMessage == ""

\* result = {'output_path': ..., 'diff_results': ...}
WorkerResult(output_path, diff_results) ==
    [output_path |-> output_path, diff_results |-> diff_results]

InitWorker == InitRun("w_start")

\* WRead without the return after the first finished.emit: the run goes on
WRead_NoReturn ==
    /\ pc = "w_start"
    /\ \E old_ok \in ReadOutcomes(raw_old) : \E new_ok \in ReadOutcomes(raw_new) :
          IF ~old_ok
          THEN /\ log' = log \o <<Progress(10), Finished(None, OldReadError),
                                  Progress(20), Progress(30)>>
               /\ pc' = "w_read"
          ELSE IF ~new_ok
          THEN /\ log' = log \o <<Progress(10), Progress(20),
                                  Finished(None, NewReadError)>>
               /\ pc' = "w_returned"
          ELSE /\ log' = log \o <<Progress(10), Progress(20), Progress(30)>>
               /\ pc' = "w_read"
    /\ UNCHANGED <<raw_old, raw_new, ret, written, diff_in, blk_old, blk_new,
                   blk_diffs, summary, engineVars, normVars, monthVars, exc, headVars>>

\* Step 1 of run(): progress 10, read_sheet of the old file, progress 20,
\* read_sheet of the new file, progress 30; a failed read emits finished and
\* returns
WRead ==
    /\ pc = "w_start"
    /\ \E old_ok \in ReadOutcomes(raw_old) : \E new_ok \in ReadOutcomes(raw_new) :
          IF ~old_ok
          THEN /\ log' = log \o <<Progress(10), Finished(None, OldReadError)>>
               /\ pc' = "w_returned"
          ELSE IF ~new_ok
          THEN /\ log' = log \o <<Progress(10), Progress(20),
                                  Finished(None, NewReadError)>>
               /\ pc' = "w_returned"
          ELSE /\ log' = log \o <<Progress(10), Progress(20), Progress(30)>>
               /\ pc' = "w_read"
    /\ UNCHANGED <<raw_old, raw_new, ret, written, diff_in, blk_old, blk_new,
                   blk_diffs, summary, engineVars, normVars, monthVars, exc, headVars>>

\* the end of step 2, given what the two normalize_dataframe calls gave
WNormalizeEnds(old_out, new_out) ==
    IF old_out.exc # "" \/ new_out.exc # ""
    THEN /\ log' = log \o <<Progress(40), Finished(None, ProcessingError)>>
         /\ pc' = "w_returned"
         /\ UNCHANGED <<old_df, new_df>>
    ELSE /\ old_df' = align_columns(old_out.df, new_out.df)[1].rows
         /\ new_df' = align_columns(old_out.df, new_out.df)[2].rows
         /\ log' = log \o <<Progress(40), Progress(50)>>
         /\ pc' = "w_norm"

\* Step 2 of run(): progress 40, normalize_dataframe twice, align_columns,
\* progress 50
WNormalize ==
    /\ pc = "w_read"
    /\ WNormalizeEnds(normalize_dataframe(Frame(columns, raw_old)),
                      normalize_dataframe(Frame(columns, raw_new)))
    /\ UNCHANGED <<columns, record_col, self_old, self_new, visited, produced,
                   results, changed_cols, raw_old, raw_new, ret, written,
                   diff_in, blk_old, blk_new, blk_diffs, summary, normVars,
                   monthVars, exc, headVars>>

\* Step 3 of run(), first half: progress 60 and, inside compare_dataframes,
\* the constructor of the engine
WConstruct ==
    /\ pc = "w_norm"
    /\ log' = Append(log, Progress(60))
    /\ record_col' = RecordColOf(columns)
    /\ IF RecordColOf(columns) # << >>
       THEN /\ self_old' = FilterFrame(old_df, RECORD_NUMBER_COL_INDEX + 1)
            /\ self_new' = FilterFrame(new_df, RECORD_NUMBER_COL_INDEX + 1)
       ELSE /\ self_old' = Labelled(old_df)
            /\ self_new' = Labelled(new_df)
    /\ pc' = "w_constructed"
    /\ UNCHANGED <<columns, old_df, new_df, visited, produced, results,
                   changed_cols, raw_old, raw_new, ret, written, diff_in,
                   blk_old, blk_new, blk_diffs, summary, normVars, monthVars,
                   exc, headVars>>

\* the end of step 3, given what compare() raised or returned
WCompareEnds(out) ==
    IF out.exc # ""
    THEN /\ log' = Append(log, Finished(None, ProcessingError))
         /\ pc' = "w_returned"
         /\ UNCHANGED results
    ELSE /\ results' = out.results
         /\ log' = Append(log, Progress(80))
         /\ pc' = "w_compared"

\* Step 3 of run(), second half: compare(), progress 80
WCompare ==
    /\ pc = "w_constructed"
    /\ IF record_col = << >>
       THEN WCompareEnds([exc |-> "", produced |-> << >>, results |-> << >>])
       ELSE \E order \in IterationOrders(AllRecordNumbers(self_old, self_new)) :
               WCompareEnds(CompareOutcome(self_old, self_new, order))
    /\ UNCHANGED <<columns, old_df, new_df, record_col, self_old, self_new,
                   visited, produced, changed_cols, raw_old, raw_new, ret,
                   written, diff_in, blk_old, blk_new, blk_diffs, summary,
                   normVars, monthVars, exc, headVars>>

\* Step 4 of run(): progress 90, the writer saves the file or raises; after
\* the save, progress 100 and finished with the result
WWrite ==
    /\ pc = "w_compared"
    /\ \E saved \in BOOLEAN :
          IF saved
          THEN /\ written' = TRUE
               /\ log' = log \o <<Progress(90), Progress(100),
                                  Finished(Some(WorkerResult("out.xlsx", results)),
                                           NoMessage)>>
          ELSE /\ written' = FALSE
               /\ log' = log \o <<Progress(90),
                                  Finished(None, ProcessingError)>>
    /\ pc' = "w_returned"
    /\ UNCHANGED <<raw_old, raw_new, ret, diff_in, blk_old, blk_new, blk_diffs,
                   summary, engineVars, normVars, monthVars, exc, headVars>>

NextWorker == WRead \/ WNormalize \/ WConstruct \/ WCompare \/ WWrite

-----------------------------------------------------------------------------
(* The three pipelines together *)

InitRuns == InitHaritsuke \/ InitMonthly \/ InitWorker

NextRuns ==
    \/ HRead \/ HNormalize \/ HConstruct \/ HCompare \/ HWrite
    \/ MRead \/ MCompare \/ MWrite
    \/ WRead \/ WNormalize \/ WConstruct \/ WCompare \/ WWrite

\* one run of HaritsukeProcessor.process, of MonthlySalesProcessor.process or
\* of DiffWorker.run
SpecRuns == InitRuns /\ [][NextRuns]_vars

-----------------------------------------------------------------------------
(* MonthlySalesExcelWriter._write_header *)

\* the header takes the first six rows of a sheet
HEADER_ROWS == 6

\* the category columns A, B, C
CATEGORY_COLUMNS == 3

\* the first month block of a sheet starts at column D (0-indexed 3)
DATA_START_COLUMN == 3

\* the columns of one month block in a sheet
BLOCK_SIZE == 4

\* the month names stand in row 5 (1-indexed)
MONTH_ROW == 5

\* the values of header cells: a month name, the label found at a place of
\* the sheet, and cell_value = None
MonthText(m) == [kind |-> "month", name |-> m, row |-> 0, col |-> 0]

Label(r, c) == [kind |-> "label", name |-> "", row |-> r, col |-> c]

NoCell == [kind |-> "none", name |-> "", row |-> 0, col |-> 0]

\* the 0-indexed column at which read_sheet finds the block of the j-th month
\* of the sheet: the blocks follow the category columns side by side
BlockStartAt(j) == DATA_START_COLUMN + BLOCK_SIZE * (j - 1)

\* the month whose block holds the 0-indexed column c, as a place of `order`
BlockOf(c) == (c - DATA_START_COLUMN) \div BLOCK_SIZE + 1

\* header_df of a sheet with the months `order`: row r (1..6), 0-indexed
\* column c at place c + 1.  The first cell of a block in the month row names
\* the month.  In a `plain` sheet the other cells of a block say the same in
\* every block; otherwise each cell says where it stands.
HeaderCell(order, plain, r, c) ==
    IF c < DATA_START_COLUMN THEN Label(r, c)
    ELSE IF r = MONTH_ROW /\ (c - DATA_START_COLUMN) % BLOCK_SIZE = 0
         THEN MonthText(order[BlockOf(c)])
         ELSE IF plain THEN Label(r, (c - DATA_START_COLUMN) % BLOCK_SIZE)
              ELSE Label(r, c)

HeaderOf(order, plain) ==
    [r \in 1..HEADER_ROWS |->
        [p \in 1..(DATA_START_COLUMN + BLOCK_SIZE * Len(order)) |->
            HeaderCell(order, plain, r, p - 1)]]

\* the cell_value of the inner loop of _write_header for the block
\* month_idx, at row_idx and col_offset (all 0-indexed)
header_cell_value(hdr, mds, month_idx, row_idx, col_offset) ==
    LET month_diff       == mds[month_idx + 1]
        source_start_col == month_diff.column_range[1]
        source_col       == source_start_col + col_offset
    IN  IF row_idx = 4 /\ col_offset = 0 THEN MonthText(month_diff.month_name)
        ELSE IF source_col < Len(hdr[1]) THEN hdr[row_idx + 1][source_col + 1]
             ELSE NoCell

\* the cells (row, column), 1-indexed, that the two loops of _write_header
\* reach
category_cells(hdr) == (1..Len(hdr)) \X (1..CATEGORY_COLUMNS)

block_cells(hdr, mds) ==
    (1..Len(hdr)) \X ((CATEGORY_COLUMNS + 1)..(CATEGORY_COLUMNS + 4 * Len(mds)))

\* _write_header(header_df, month_diffs): the sheet afterwards, as the value
\* of each cell that was written
write_header(hdr, mds) ==
    LET value(p) ==
            IF p[2] <= CATEGORY_COLUMNS THEN hdr[p[1]][p[2]]
            ELSE header_cell_value(hdr, mds,
                                   (p[2] - 1 - CATEGORY_COLUMNS) \div 4,
                                   p[1] - 1,
                                   (p[2] - 1 - CATEGORY_COLUMNS) % 4)
        reached == category_cells(hdr) \cup block_cells(hdr, mds)
    IN  [p \in {q \in reached : value(q) # NoCell} |-> value(p)]

\* sheets that name each of their months once
HeaderSheets ==
    {s \in LabelSheets : Len(s.month_order) = Cardinality(DOMAIN s.month_blocks)}

\* two sheets as read_sheet returns them, with the header of the new one
InitHeader ==
    /\ old_data \in HeaderSheets
    /\ new_data \in HeaderSheets
    /\ \E plain \in BOOLEAN : header_df = HeaderOf(new_data.month_order, plain)
    /\ ws = << >>
    /\ month_diffs = << >>
    /\ old_value = << >>
    /\ new_value = << >>
    /\ change_type = ""
    /\ blk_old = << >>
    /\ blk_new = << >>
    /\ blk_diffs = << >>
    /\ summary = << >>
    /\ RunIdle
    /\ NormIdle
    /\ EngineIdle
    /\ exc = ""
    /\ pc = "sheets"

\* writer._write_header(header_df, month_diffs) inside write_diff_result,
\* which process() calls when compare_sheets found differences
WriteHeader ==
    /\ pc = "sheets_done"
    /\ month_diffs # << >>
    /\ ws' = write_header(header_df, month_diffs)
    /\ pc' = "header_done"
    /\ UNCHANGED <<header_df, blk_old, blk_new, blk_diffs, summary, runVars,
                   engineVars, normVars, monthVars, exc>>

NextHeader == CompareSheets \/ WriteHeader

\* compare_sheets, then the header of the output sheet
SpecHeader == InitHeader /\ [][NextHeader]_vars

-----------------------------------------------------------------------------
(* What the claims speak of, read off the constructor arguments *)

\* the position of the record-number column in a row
SrcRc == RECORD_NUMBER_COL_INDEX + 1

HasRecordColumn == Len(columns) > RECORD_NUMBER_COL_INDEX

\* the record-number cell of the row is neither null nor empty
HasRecord(row) ==
    row[SrcRc].tag # "null" /\ ~(row[SrcRc].tag = "text" /\ row[SrcRc].s = << >>)

SrcKey(row) == str(row[SrcRc])

SrcKeys(df) == {SrcKey(df[i]) : i \in {j \in 1..Len(df) : HasRecord(df[j])}}

\* the rows of df that carry the key k, in row order
SrcGroup(df, k) == SelectSeq(df, LAMBDA r : HasRecord(r) /\ SrcKey(r) = k)

\* df without its rows of null or empty record number
Stripped(df) == SelectSeq(df, HasRecord)

\* every cell is null or non-empty text
Normalized(df) ==
    \A i \in 1..Len(df) : \A c \in 1..Len(df[i]) :
        df[i][c].tag = "null" \/ (df[i][c].tag = "text" /\ df[i][c].s # << >>)

NormalizedInputs == Normalized(old_df) /\ Normalized(new_df)

\* compare() has ended, by returning or by an exception
Terminated == pc \in {"done", "raised"}

\* a result without its row_index
Body(r) ==
    [change_type |-> r.change_type, old_data |-> r.old_data,
     new_data |-> r.new_data, changed_columns |-> r.changed_columns,
     record_number |-> r.record_number]

Bodies(res) == [i \in 1..Len(res) |-> Body(res[i])]

\* the results of record number k, in list order
OfKey(res, k) == SelectSeq(res, LAMBDA r : r.record_number = k)

\* the cell comparison rule of the record engine
CellsDiffer(a, b) ==
    IF a.tag = "null" /\ b.tag = "null" THEN FALSE
    ELSE IF a.tag = "null" \/ b.tag = "null" THEN TRUE
    ELSE str(a) # str(b)

\* the columns on which two rows differ under the rule, in column order
DifferingColumns(o, n) ==
    LET idx == SelectSeq([i \in 1..Len(columns) |-> i],
                         LAMBDA i : CellsDiffer(o[i], n[i]))
    IN  [k \in 1..Len(idx) |-> columns[idx[k]]]

ExpectAdded(rows, k) ==
    [i \in 1..Len(rows) |->
        Body(DiffResult(0, "added", None, Some(rows[i]), None, k))]

ExpectDeleted(rows, k) ==
    [i \in 1..Len(rows) |->
        Body(DiffResult(0, "deleted", Some(rows[i]), None, None, k))]

\* one 'changed' per positional pair among the first n that differs
ExpectChanged(o, n, cnt, k) ==
    LET idx == SelectSeq([i \in 1..cnt |-> i],
                         LAMBDA i : DifferingColumns(o[i], n[i]) # << >>)
    IN  [j \in 1..Len(idx) |->
            Body(DiffResult(0, "changed", Some(o[idx[j]]), Some(n[idx[j]]),
                            Some(DifferingColumns(o[idx[j]], n[idx[j]])), k))]

OnlyNewKeys == SrcKeys(new_df) \ SrcKeys(old_df)

OnlyOldKeys == SrcKeys(old_df) \ SrcKeys(new_df)

EqualGroupKeys ==
    {k \in SrcKeys(old_df) \cap SrcKeys(new_df) :
        Len(SrcGroup(old_df, k)) = Len(SrcGroup(new_df, k))}

UnequalGroupKeys ==
    {k \in SrcKeys(old_df) \cap SrcKeys(new_df) :
        Len(SrcGroup(old_df, k)) # Len(SrcGroup(new_df, k))}

Min(a, b) == IF a < b THEN a ELSE b

-----------------------------------------------------------------------------
(* C1 *)

AddedDeletedAsClaimed ==
    /\ \A k \in OnlyNewKeys :
          Bodies(OfKey(results, k)) = ExpectAdded(SrcGroup(new_df, k), k)
    /\ \A k \in OnlyOldKeys :
          Bodies(OfKey(results, k)) = ExpectDeleted(SrcGroup(old_df, k), k)

\* C1: for aligned, normalized inputs, compare() returns, for every key that
\* occurs only in new, exactly one 'added' result per new row of that key
\* with that row as new_data and old_data None, and for every key that occurs
\* only in old exactly one 'deleted' result per old row, with that row as
\* old_data and new_data None.
C1_AddedDeletedPerRow ==
    (Terminated /\ HasRecordColumn /\ NormalizedInputs
        /\ OnlyNewKeys \cup OnlyOldKeys # {})
    => (pc = "done" /\ AddedDeletedAsClaimed)

\* C1, of the calls that return: the same with no row of null record number
\* ahead of a row that has one, which is when compare() returns
C1_IfReturned ==
    (pc = "done" /\ HasRecordColumn) => AddedDeletedAsClaimed

-----------------------------------------------------------------------------
(* C2 *)

\* DiffEngine(old', new').compare(), old' and new' being old_df and new_df
\* without their rows of null or empty record number, the keys iterated in
\* the same order
StrippedOutcome ==
    CompareOutcome(FilterFrame(Stripped(old_df), SrcRc),
                   FilterFrame(Stripped(new_df), SrcRc), visited)

NoResultOfFilteredRow ==
    \A i \in 1..Len(results) :
        /\ results[i].old_data.some => HasRecord(results[i].old_data.val)
        /\ results[i].new_data.some => HasRecord(results[i].new_data.val)

\* C2: rows of null or empty record number are excluded from all processing:
\* compare() returns what it returns on the inputs with those rows removed,
\* and no result's old_data or new_data is such a row.
C2_FilteredRowsExcluded ==
    (Terminated /\ HasRecordColumn)
    => /\ pc = "done"
       /\ StrippedOutcome.exc = ""
       /\ results = StrippedOutcome.results
       /\ NoResultOfFilteredRow

\* C2, of the calls that return
C2_IfReturned ==
    (pc = "done" /\ HasRecordColumn)
    => (results = StrippedOutcome.results /\ NoResultOfFilteredRow)

-----------------------------------------------------------------------------
(* C3 *)

EqualGroupsAsClaimed ==
    \A k \in EqualGroupKeys :
        Bodies(OfKey(results, k))
          = ExpectChanged(SrcGroup(old_df, k), SrcGroup(new_df, k),
                          Len(SrcGroup(old_df, k)), k)

\* C3: for a key present in both inputs with equally many old and new rows,
\* the i-th old row is paired with the i-th new row; each pair that differs in
\* some column yields exactly one 'changed' result that lists every differing
\* column in column order and holds the two full rows, and each pair that
\* differs in no column yields no result.
C3_EqualGroupsPairedByPosition ==
    (Terminated /\ HasRecordColumn /\ NormalizedInputs /\ EqualGroupKeys # {})
    => (pc = "done" /\ EqualGroupsAsClaimed)

\* C3, of the calls that return
C3_IfReturned ==
    (pc = "done" /\ HasRecordColumn) => EqualGroupsAsClaimed

-----------------------------------------------------------------------------
(* C4 *)

UnequalGroupsAsClaimed ==
    \A k \in UnequalGroupKeys :
        LET o == SrcGroup(old_df, k)
            n == SrcGroup(new_df, k)
            m == Min(Len(o), Len(n))
        IN  Bodies(OfKey(results, k))
              = ExpectChanged(o, n, m, k)
                  \o (IF Len(o) > Len(n)
                      THEN ExpectDeleted(SubSeq(o, m + 1, Len(o)), k)
                      ELSE ExpectAdded(SubSeq(n, m + 1, Len(n)), k))

\* C4: for a key present in both inputs with different group sizes, the first
\* min(|R_o|,|R_n|) rows are paired by position under the same rule, and every
\* remaining row of the longer group yields exactly one 'deleted' (old longer)
\* or 'added' (new longer) result; no row is paired across positions.
C4_UnequalGroupsPairedByPosition ==
    (Terminated /\ HasRecordColumn /\ NormalizedInputs /\ UnequalGroupKeys # {})
    => (pc = "done" /\ UnequalGroupsAsClaimed)

\* C4, of the calls that return
C4_IfReturned ==
    (pc = "done" /\ HasRecordColumn) => UnequalGroupsAsClaimed

-----------------------------------------------------------------------------
(* C5 *)

\* the keys of df that are not in `seen`, in first-seen order
RECURSIVE FirstSeenKeys(_, _)
FirstSeenKeys(df, seen) ==
    IF df = << >> THEN << >>
    ELSE IF HasRecord(Head(df)) /\ SrcKey(Head(df)) \notin seen
         THEN <<SrcKey(Head(df))>>
                \o FirstSeenKeys(Tail(df), seen \cup {SrcKey(Head(df))})
         ELSE FirstSeenKeys(Tail(df), seen)

\* first-seen order across the old rows, then the keys seen only in new rows
ClaimedKeyOrder ==
    FirstSeenKeys(old_df, {}) \o FirstSeenKeys(new_df, SrcKeys(old_df))

PlaceIn(order, k) == CHOOSE i \in 1..Len(order) : order[i] = k

SortSkipped == ~(all_numeric(produced) /\ ~SortKeyRaises(produced))

\* C5: compare() visits the keys in first-seen order across the old rows,
\* followed by the keys seen only in new rows; when the sort is skipped the
\* results come grouped in that key order.
C5_KeyVisitOrder ==
    (pc = "done" /\ HasRecordColumn)
    => /\ visited = ClaimedKeyOrder
       /\ SortSkipped =>
             \A i, j \in 1..Len(results) :
                 i < j => PlaceIn(ClaimedKeyOrder, results[i].record_number)
                            <= PlaceIn(ClaimedKeyOrder, results[j].record_number)

\* C5, what does hold: every key is visited once, in some order
C5_EachKeyOnce ==
    (pc = "done" /\ HasRecordColumn)
    => /\ {visited[i] : i \in 1..Len(visited)}
             = SrcKeys(old_df) \cup SrcKeys(new_df)
       /\ Len(visited) = Cardinality(SrcKeys(old_df) \cup SrcKeys(new_df))

-----------------------------------------------------------------------------
(* C6 *)

\* an optional '-', then digits with at most one '.', at least one digit
IsSignedDecimal(s) ==
    LET u == IF Len(s) > 0 /\ s[1] = "-" THEN Tail(s) ELSE s
    IN  /\ \A i \in 1..Len(u) : u[i] \in DigitSet \cup {"."}
        /\ Cardinality({i \in 1..Len(u) : u[i] = "."}) <= 1
        /\ \E i \in 1..Len(u) : u[i] \in DigitSet

NumericValue(r) == FloatVal(r.record_number)

AllDecimal(res) ==
    \A i \in 1..Len(res) : IsSignedDecimal(res[i].record_number)

\* the results of numeric value v, in list order
OfValue(res, v) == SelectSeq(res, LAMBDA r : NumericValue(r) = v)

\* C6: when every result's record number is a signed decimal number, the list
\* compare() returns is in non-increasing order of the numeric value, and the
\* results of equal value keep the order they were produced in.
C6_SortedDescendingStable ==
    (pc = "done" /\ HasRecordColumn /\ AllDecimal(results))
    => /\ \A i \in 1..(Len(results) - 1) :
              NumericValue(results[i]) >= NumericValue(results[i + 1])
       /\ \A i \in 1..Len(results) :
              Bodies(OfValue(results, NumericValue(results[i])))
                = Bodies(OfValue(produced, NumericValue(results[i])))
       /\ Len(results) = Len(produced)

\* the sort moved a result, and two results of equal value differ
C6_Witness ==
    /\ pc = "done" /\ HasRecordColumn /\ AllDecimal(results)
    /\ Bodies(results) # Bodies(produced)
    /\ \E i, j \in 1..Len(results) :
          /\ i < j
          /\ NumericValue(results[i]) = NumericValue(results[j])
          /\ Body(results[i]) # Body(results[j])

-----------------------------------------------------------------------------
(* C7 *)

SomeNotDecimal(res) ==
    \E i \in 1..Len(res) : ~IsSignedDecimal(res[i].record_number)

\* C7: when some result's record number is no number, compare() does not
\* reorder: it returns the list of the per-key phase in the same order, and
\* no exception escapes.
C7_NoReorderWhenNotNumeric ==
    (Terminated /\ HasRecordColumn /\ SomeNotDecimal(produced))
    => (pc = "done" /\ exc = "" /\ Bodies(results) = Bodies(produced))

\* every record number passes the digit test, one of them is no number (the
\* float parse raises), and the numbers among them stand in ascending order
C7_Witness ==
    /\ pc = "done" /\ HasRecordColumn
    /\ all_numeric(produced) /\ SomeNotDecimal(produced)
    /\ \E i, j \in 1..Len(produced) :
          /\ i < j
          /\ IsSignedDecimal(produced[i].record_number)
          /\ IsSignedDecimal(produced[j].record_number)
          /\ NumericValue(produced[i]) < NumericValue(produced[j])

-----------------------------------------------------------------------------
(* C8 *)

\* C8: in the list compare() returns, and in the list that remains after the
\* update-time filter of HaritsukeProcessor, the k-th result has row_index k.
C8_RowIndexDense ==
    pc \in {"done", "filtered"}
    => \A k \in 1..Len(results) : results[k].row_index = k

\* the filter dropped a result and kept another
C8_Witness ==
    /\ pc = "filtered"
    /\ Len(results) >= 1
    /\ Len(results) < Len(produced)

-----------------------------------------------------------------------------
(* C9 *)

\* C9: every 'changed' result of compare() has a non-empty changed_columns,
\* each column named in it is one on which its old and new row differ under
\* the cell rule; 'added' and 'deleted' results have changed_columns None.
C9_ChangedColumnsReal ==
    pc = "done"
    => \A i \in 1..Len(results) :
          LET r == results[i]
          IN  IF r.change_type = "changed"
              THEN /\ r.changed_columns.some
                   /\ r.changed_columns.val # << >>
                   /\ \A k \in 1..Len(r.changed_columns.val) :
                         CellsDiffer(r.old_data.val[ColPos(r.changed_columns.val[k])],
                                     r.new_data.val[ColPos(r.changed_columns.val[k])])
              ELSE r.changed_columns = None

\* a 'changed' result of two columns beside an 'added' or 'deleted' one
C9_Witness ==
    /\ pc = "done"
    /\ \E i \in 1..Len(results) :
          results[i].change_type = "changed"
            /\ Len(results[i].changed_columns.val) = 2
    /\ \E i \in 1..Len(results) : results[i].change_type # "changed"

-----------------------------------------------------------------------------
(* C10 *)

\* the place of a column name in the column list
ColumnPlace(name) == CHOOSE i \in 1..Len(columns) : columns[i] = name

\* C10: _diff_cells returns precisely the columns, in column order, for which
\* the rule reports a change: no change when both cells are null, a change
\* when exactly one is null, otherwise a change exactly when the texts of the
\* two cells are unequal.
C10_DiffCellsRule ==
    pc = "cells_done"
    => /\ \A i \in 1..Len(columns) :
              (\E k \in 1..Len(changed_cols) : changed_cols[k] = columns[i])
                <=> CellsDiffer(old_df[1][i], new_df[1][i])
       /\ \A k \in 1..(Len(changed_cols) - 1) :
              ColumnPlace(changed_cols[k]) < ColumnPlace(changed_cols[k + 1])

\* a number against its own text (no change), null against text and text
\* against text (changes)
C10_Witness ==
    /\ pc = "cells_done"
    /\ old_df[1][1] = Num(1) /\ new_df[1][1] = Text(<<"1">>)
    /\ old_df[1][2] = Null /\ new_df[1][2] = Text(<<"x">>)
    /\ changed_cols = <<"B", "UpdateTime">>

-----------------------------------------------------------------------------
(* C11 *)

\* C11: constructing a DiffEngine on two column-aligned datasets and calling
\* compare() never raises, whatever the shape of the data: no exception
\* escapes, and the call returns.
C11_NeverRaises ==
    (Terminated /\ HasRecordColumn) => (pc = "done" /\ exc = "")

\* some row without a record number stands ahead of a row that has one
NullAheadOfKept(df) ==
    \E i, j \in 1..Len(df) : i < j /\ ~HasRecord(df[i]) /\ HasRecord(df[j])

\* C11, what does hold: an exception escapes exactly when a row of null or
\* empty record number precedes a kept row, and it is an IndexError
C11_RaisesOnlyOnLabelGap ==
    (Terminated /\ HasRecordColumn)
    => /\ pc = "raised" <=> (NullAheadOfKept(old_df) \/ NullAheadOfKept(new_df))
       /\ pc = "raised" => exc = "IndexError"

-----------------------------------------------------------------------------
(* C12 *)

\* C12: when the data lacks the record-number column (fewer columns than its
\* position requires), the record diff fails with an error and never returns
\* a result list.
C12_FailsFastWithoutRecordColumn ==
    (Terminated /\ ~HasRecordColumn) => pc = "raised"

\* C12, what the code does: without the column it returns the empty list
C12_ReturnsEmptyWithoutRecordColumn ==
    (Terminated /\ ~HasRecordColumn) => (pc = "done" /\ results = << >>)

-----------------------------------------------------------------------------
(* C13 *)

\* C13: DiffEngine.compare() is deterministic: every execution on the same
\* inputs returns the list this execution returned, in the same order and
\* with the same row_index values.
C13_CompareDeterministic ==
    (pc = "done" /\ HasRecordColumn)
    => \A order \in IterationOrders(AllRecordNumbers(self_old, self_new)) :
           CompareOutcome(self_old, self_new, order).results = results

\* C13, what does hold: two executions return the same results up to order
C13_SameResultsUpToOrder ==
    (pc = "done" /\ HasRecordColumn)
    => \A order \in IterationOrders(AllRecordNumbers(self_old, self_new)) :
           LET other == CompareOutcome(self_old, self_new, order).results
           IN  /\ Len(other) = Len(results)
               /\ {Body(other[i]) : i \in 1..Len(other)}
                    = {Body(results[i]) : i \in 1..Len(results)}

-----------------------------------------------------------------------------
(* What the normalizer claims speak of *)

\* the cells of a dataset, as (row, column) places
Places(df) == (1..Len(df.rows)) \X (1..Len(df.cols))

At(df, p) == df.rows[p[1]][p[2]]

SameShape(a, b) == a.cols = b.cols /\ Len(a.rows) = Len(b.rows)

Lower(ch) ==
    IF ch = "N" THEN "n" ELSE IF ch = "O" THEN "o" ELSE IF ch = "E" THEN "e"
    ELSE IF ch = "U" THEN "u" ELSE IF ch = "L" THEN "l" ELSE ch

LowerText(t) == [i \in 1..Len(t) |-> Lower(t[i])]

\* absent, the empty string, or "none" / "null" in any letter case
IsNullLike(v) ==
    \/ v.tag = "null"
    \/ /\ v.tag = "text"
       /\ LowerText(v.s) \in {<< >>, <<"n", "o", "n", "e">>, <<"n", "u", "l", "l">>}

\* a non-integral value d * 10^e written out in positional decimal notation
Positional(negative, f) ==
    LET n     == Len(f.d)
        decpt == Len(f.d) + f.e
    IN  (IF negative THEN <<"-">> ELSE << >>)
          \o (IF decpt <= 0 THEN <<"0", ".">> \o Zeros(-decpt) \o f.d
              ELSE SubSeq(f.d, 1, decpt) \o <<".">> \o SubSeq(f.d, decpt + 1, n))

PositionalText(s) == Positional(IsNegative(s), float_digits(s))

\* the rule of the claim for a text cell
ClaimedNormalizeText(t) ==
    LET trimmed == strip(t)
    IN  IF trimmed = << >> THEN Null
        ELSE IF IntParses(trimmed) THEN Text(int_str(trimmed))
        ELSE IF float_parses(trimmed)
        THEN IF is_integer(trimmed) THEN Text(float_int_str(trimmed))
             ELSE Text(PositionalText(trimmed))
        ELSE Text(trimmed)

HasExponentMark(t) == \E i \in 1..Len(t) : t[i] \in {"e", "E"}

-----------------------------------------------------------------------------
(* C14 *)

\* C14: normalization is idempotent: normalizing the normalized dataset
\* returns it cell for cell.
C14_NormalizeIdempotent ==
    pc = "norm_twice" => df_ret2 = df_ret

\* the cell is text that is a null token once its whitespace is trimmed
PaddedNullToken(v) ==
    v.tag = "text" /\ v.s \notin NullTokens /\ strip(v.s) \in NullTokens \ {<< >>}

\* C14, what does hold: the second pass changes exactly the cells that were
\* a null token with whitespace around it, and makes them Null
C14_IdempotentButPaddedTokens ==
    pc = "norm_twice"
    => /\ SameShape(df_ret2, df_ret)
       /\ \A p \in Places(df_arg) :
             IF PaddedNullToken(At(df_arg, p))
             THEN At(df_ret, p) = Text(strip(At(df_arg, p).s))
                    /\ At(df_ret2, p) = Null
             ELSE At(df_ret2, p) = At(df_ret, p)

-----------------------------------------------------------------------------
(* C15 *)

\* C15: normalize_dataframe maps to Null every cell that is absent, the empty
\* string, or the token "none" or "null" in any letter case.
C15_NullLikeToNull ==
    pc = "norm_once"
    => \A p \in Places(df_arg) :
           IsNullLike(At(df_arg, p)) => At(df_ret, p) = Null

\* C15, what does hold: absent cells, whitespace-only text and the spellings
\* '', 'None', 'none', 'NULL', 'null' become Null; any other spelling of the
\* tokens stays as text
C15_ListedSpellingsToNull ==
    pc = "norm_once"
    => \A p \in Places(df_arg) :
           IsNullLike(At(df_arg, p))
           => IF At(df_arg, p).tag = "null" \/ At(df_arg, p).s \in NullTokens
              THEN At(df_ret, p) = Null
              ELSE At(df_ret, p) = At(df_arg, p)

-----------------------------------------------------------------------------
(* C16 *)

\* C16: a text cell is trimmed; trimmed-empty gives Null; an integer literal
\* gives the integer's minimal decimal text; a real-number literal gives the
\* integer text when its value is integral and the shortest decimal text
\* otherwise; text that is no number is returned trimmed and otherwise as is.
C16_TextCanonicalized ==
    pc = "norm_once"
    => \A p \in Places(df_arg) :
           (At(df_arg, p).tag = "text" /\ At(df_arg, p).s \notin NullTokens)
           => At(df_ret, p) = ClaimedNormalizeText(At(df_arg, p).s)

\* the value is zero, integral, or at least 0.0001 in magnitude
PlainMagnitude(t) ==
    is_integer(t) \/ Len(float_digits(t).d) + float_digits(t).e - 1 >= -4

\* C16, what does hold: the rule is followed by text without an exponent
\* mark whose value, when it is a number, is integral or at least 0.0001
C16_PlainDecimalsCanonicalized ==
    pc = "norm_once"
    => \A p \in Places(df_arg) :
           LET v == At(df_arg, p)
           IN  (/\ v.tag = "text" /\ v.s \notin NullTokens
                /\ ~HasExponentMark(strip(v.s))
                /\ float_parses(strip(v.s)) => PlainMagnitude(strip(v.s)))
               => At(df_ret, p) = ClaimedNormalizeText(v.s)

-----------------------------------------------------------------------------
(* C17 *)

NormalizedCell(v) == v.tag = "null" \/ v.tag = "text"

\* C17: normalize_dataframe returns for every dataset of null, text, number
\* and timestamp cells without raising; every cell of the dataset returned
\* is Null or text; the dataset handed in is left as it was.
C17_NormalizeTotalNonMutating ==
    /\ [](pc \in {"norm_once", "norm_twice", "raised"}
            => /\ pc # "raised" /\ exc = ""
               /\ SameShape(df_ret, df_arg)
               /\ \A p \in Places(df_ret) : NormalizedCell(At(df_ret, p)))
    /\ [][df_arg' = df_arg]_vars

\* text that looks numeric and does not parse came back as text
C17_Witness ==
    /\ pc = "norm_once"
    /\ df_arg.rows = <<<<Text(<<"1", ".", "5", ".", "5">>)>>>>
    /\ df_ret.rows = <<<<Text(<<"1", ".", "5", ".", "5">>)>>>>

-----------------------------------------------------------------------------
(* C18 *)

\* C18: align_columns(old, new) returns (old', new): new as it was; old' has
\* new's columns in new's order and old's rows in old's order; a column
\* shared with old holds old's values, a column only in new is Null on every
\* row, a column only in old is gone.
C18_AlignColumns ==
    pc = "aligned"
    => /\ al_ret[2] = al_new
       /\ al_ret[1].cols = al_new.cols
       /\ Len(al_ret[1].rows) = Len(al_old.rows)
       /\ \A i \in 1..Len(al_old.rows) : \A k \in 1..Len(al_new.cols) :
             al_ret[1].rows[i][k]
               = IF HasCol(al_old, al_new.cols[k])
                 THEN CellOf(al_old, i, al_new.cols[k])
                 ELSE Null

\* old has a column new lacks, lacks a column new has, and shares a column
\* that stands at another place in new; old has a row with a value in it
C18_Witness ==
    /\ pc = "aligned"
    /\ al_old.cols = <<"C", "A">>
    /\ al_new.cols = <<"A", "B">>
    /\ al_old.rows = <<<<Null, Text(<<"x">>)>>>>
    /\ al_ret[1].rows = <<<<Text(<<"x">>), Null>>>>

-----------------------------------------------------------------------------
(* What the month-block claims speak of *)

\* null counts as 0
Zeroed(value) == IF value.nan THEN 0 ELSE value.v

\* the classification of the claim, values and the 0.01 in thousandths
ClaimedClass(ov, nv) ==
    IF Zeroed(ov) = 0 /\ Zeroed(nv) = 0 THEN "unchanged"
    ELSE IF Zeroed(nv) - Zeroed(ov) > 10 THEN "increased"
    ELSE IF Zeroed(nv) - Zeroed(ov) < -10 THEN "decreased"
    ELSE "unchanged"

\* the cell of a block at a row and column, null past the last row
CellOrNull(block, i, c) == IF i <= Len(block) THEN block[i][c] ELSE NaN

\* some cell of the longer block's range is classified other than unchanged
BlockChanged(ob, nb) ==
    \E i \in 1..Max(Len(ob), Len(nb)) : \E c \in 1..Len(MetricColumns) :
        ClaimedClass(CellOrNull(ob, i, c), CellOrNull(nb, i, c)) # "unchanged"

CommonLabels == DOMAIN old_data.month_blocks \cap DOMAIN new_data.month_blocks

MonthNames(diffs) == [i \in 1..Len(diffs) |-> diffs[i].month_name]

-----------------------------------------------------------------------------
(* C19 *)

\* C19: the month labels of the list compare_sheets returns are the labels
\* of new's month_order, in that order, that are in both sheets' block
\* mappings and whose blocks have a cell classified other than unchanged; a
\* label of one sheet only never appears, and a common month whose cells are
\* all unchanged is left out.
C19_MonthsListed ==
    pc = "sheets_done"
    => MonthNames(month_diffs)
         = SelectSeq(new_data.month_order,
              LAMBDA m : /\ m \in CommonLabels
                         /\ BlockChanged(old_data.month_blocks[m],
                                         new_data.month_blocks[m]))

\* a label of the old sheet only, ahead of the others in old's order; a common
\* month left out although its blocks differ; a common month listed
C19_Witness ==
    /\ pc = "sheets_done"
    /\ old_data.month_order = <<"M1", "M2", "M3">>
    /\ new_data.month_order = <<"M3", "M2">>
    /\ old_data.month_blocks["M2"] # new_data.month_blocks["M2"]
    /\ MonthNames(month_diffs) = <<"M3">>

-----------------------------------------------------------------------------
(* C20 *)

\* C20: a cell is 'unchanged' when old and new are each null or zero;
\* otherwise, null counting as 0 and diff = new - old, it is 'unchanged' when
\* |diff| <= 0.01, 'increased' when diff > 0.01 and 'decreased' when
\* diff < -0.01; one of the three classes is returned for every pair.
C20_ChangeClass ==
    pc = "change_done"
    => /\ change_type \in {"unchanged", "increased", "decreased"}
       /\ change_type = ClaimedClass(old_value, new_value)
       /\ (old_value = Val(100000) /\ new_value = Val(100005))
             => change_type = "unchanged"
       /\ (old_value = Val(100000) /\ new_value = Val(100020))
             => change_type = "increased"

\* a difference of exactly the tolerance was classified
C20_Witness ==
    /\ pc = "change_done"
    /\ old_value = Val(10) /\ new_value = Val(20)
    /\ change_type = "unchanged"

-----------------------------------------------------------------------------
(* C21 *)

\* C21: _compare_blocks returns exactly one cell diff for every row index
\* below the larger of the two block lengths and each of the four metric
\* columns, in row-major order, changed or not; a cell past a block's last
\* row, or holding NaN, is read as null for that side.
C21_OneCellDiffPerCell ==
    pc = "blocks_done"
    => /\ Len(blk_diffs)
            = Max(Len(blk_old), Len(blk_new)) * Len(MetricColumns)
       /\ \A i \in 1..Max(Len(blk_old), Len(blk_new)) :
            \A c \in 1..Len(MetricColumns) :
               LET cd == blk_diffs[(i - 1) * Len(MetricColumns) + c]
               IN  /\ cd.row_index = i - 1
                   /\ cd.column_name = MetricColumns[c]
                   /\ cd.old_value = CellOrNull(blk_old, i, c)
                   /\ cd.new_value = CellOrNull(blk_new, i, c)
                   /\ cd.change_type
                        = ClaimedClass(CellOrNull(blk_old, i, c),
                                       CellOrNull(blk_new, i, c))

\* the old block is the shorter one and the cells of the new block's last
\* row are all unchanged, yet recorded
C21_Witness ==
    /\ pc = "blocks_done"
    /\ Len(blk_old) = 1 /\ Len(blk_new) = 2
    /\ Len(blk_diffs) = 8
    /\ \A k \in 5..8 : /\ blk_diffs[k].change_type = "unchanged"
                       /\ blk_diffs[k].old_value = NaN

-----------------------------------------------------------------------------
(* C22 *)

\* C22: in the list compare_sheets returns, the k-th month (k = 0, 1, 2, ...)
\* has column_range (3 + 4k, 6 + 4k): every range spans four columns, the
\* ranges of consecutive listed months are adjacent and do not overlap, and
\* a month left out (not common, or all unchanged) takes no columns.
C22_ColumnRanges ==
    pc = "sheets_done"
    => /\ \A k \in 1..Len(month_diffs) :
            month_diffs[k].column_range = <<3 + 4 * (k - 1), 6 + 4 * (k - 1)>>
       /\ \A k \in 1..(Len(month_diffs) - 1) :
            month_diffs[k + 1].column_range[1]
               = month_diffs[k].column_range[2] + 1

\* the first common month of the new sheet is left out as unchanged, and the
\* two that follow are listed from column 3 on
C22_Witness ==
    /\ pc = "sheets_done"
    /\ new_data.month_order = <<"M1", "M2", "M3">>
    /\ CommonLabels = MonthLabels
    /\ ~BlockChanged(old_data.month_blocks["M1"], new_data.month_blocks["M1"])
    /\ MonthNames(month_diffs) = <<"M2", "M3">>
    /\ month_diffs[1].column_range = <<3, 6>>
    /\ month_diffs[2].column_range = <<7, 10>>

-----------------------------------------------------------------------------
(* C23 *)

\* the cell diffs of a list of month diffs with the change type t, each named
\* by its month's place and its own place
CellsOfType(diffs, t) ==
    UNION {{<<m, k>> : k \in {j \in 1..Len(diffs[m].cell_diffs) :
                                  diffs[m].cell_diffs[j].change_type = t}} :
           m \in 1..Len(diffs)}

\* C23: get_summary is a pure reduction: total_months is the number of month
\* diffs, total_increased and total_decreased are the numbers of cell diffs
\* of those types over all months, total_changed_cells is their sum
\* (unchanged cells are not counted), months is the list of month names in
\* input order, and month_diffs is not modified.
C23_SummaryIsReduction ==
    /\ [](pc = "summary_done"
           => /\ summary.total_months = Len(month_diffs)
              /\ summary.total_increased
                   = Cardinality(CellsOfType(month_diffs, "increased"))
              /\ summary.total_decreased
                   = Cardinality(CellsOfType(month_diffs, "decreased"))
              /\ summary.total_changed_cells
                   = summary.total_increased + summary.total_decreased
              /\ summary.months = MonthNames(month_diffs))
    /\ [][pc = "sheets_done" => month_diffs' = month_diffs]_vars

\* two months summarised, with unchanged cells beside a changed one in each
C23_Witness ==
    /\ pc = "summary_done"
    /\ summary.total_months = 2
    /\ summary.months = <<"M3", "M1">>
    /\ summary.total_increased = 1
    /\ summary.total_decreased = 1
    /\ summary.total_changed_cells = 2
    /\ CellsOfType(month_diffs, "unchanged") # {}

-----------------------------------------------------------------------------
(* C24 *)

\* a 'changed' result whose changed columns are all update-time columns
OnlyUpdateTime(r) ==
    /\ r.change_type = "changed"
    /\ \A i \in 1..Len(r.changed_columns.val) :
          r.changed_columns.val[i]
             \in {"KoushinNichiji", "KoushinBi", "UpdateTime", "UpdateDate"}

\* process() has the list of compare_dataframes and is past its filter
PastFilter ==
    \/ pc = "h_filtered"
    \/ pc = "h_returned" /\ ret.error_message = "no differences"
    \/ pc = "h_returned" /\ Len(log) >= 4

\* C24: process() removes from the diff results exactly the 'changed'
\* results whose changed columns are all update-time columns; every 'added'
\* and 'deleted' result and every 'changed' result with another changed
\* column is kept, in the original relative order and with its changed
\* columns as they were; if nothing remains, no output file is written and a
\* 'no differences' error message is returned.
C24_UpdateTimeOnlyRemoved ==
    PastFilter
    => /\ Bodies(results)
            = Bodies(SelectSeq(diff_in, LAMBDA r : ~OnlyUpdateTime(r)))
       /\ (\A i \in 1..Len(diff_in) : OnlyUpdateTime(diff_in[i]))
             => /\ pc = "h_returned"
                /\ ~written
                /\ ret = [output_path |-> None, diff_results |-> None,
                          error_message |-> "no differences"]
                /\ \A i \in 1..Len(log) : log[i].value < 80

\* of two results the one that changed in the update time alone is gone and
\* the added one is kept, as the first of the list for the writer
C24_Witness ==
    /\ pc = "h_filtered"
    /\ Len(diff_in) = 2
    /\ OnlyUpdateTime(diff_in[1])
    /\ diff_in[1].changed_columns.val = <<"UpdateTime">>
    /\ Len(results) = 1
    /\ results[1].change_type = "added"
    /\ results[1].row_index = 1

-----------------------------------------------------------------------------
(* What the pipeline claims speak of *)

\* the places of a run of a processor's process()
ProcessPlaces ==
    {"h_start", "h_read", "h_norm", "h_constructed", "h_filtered",
     "h_returned", "m_start", "m_read", "m_compared", "m_returned"}

\* process() has returned
ProcessReturned == pc \in {"h_returned", "m_returned"}

\* output_path and diff_results are there and the message is empty
SuccessShape(r) ==
    r.output_path.some /\ r.diff_results.some /\ r.error_message = ""

\* output_path and diff_results are None and the message is not empty
FailureShape(r) ==
    ~r.output_path.some /\ ~r.diff_results.some /\ r.error_message # ""

\* the percentages reported so far, in order
Reported ==
    SelectSeq(log, LAMBDA e : e.signal = "progress")

-----------------------------------------------------------------------------
(* C25 *)

\* C25: process() never lets an exception escape and always returns a triple
\* (output_path, diff_results, error_message) of one of two shapes: success,
\* with output_path and diff_results there and the message empty, or failure,
\* with both None and a message that is not empty; a failure at any step
\* (read, validate, normalize, diff, write) yields the failure shape.
C25_ProcessReturnsTriple ==
    pc \in ProcessPlaces
    => /\ exc = ""
       /\ ~ProcessReturned => ret = << >>
       /\ ProcessReturned
            => /\ SuccessShape(ret) \/ FailureShape(ret)
               /\ SuccessShape(ret) <=> written
               /\ (~written \/ Reported[Len(Reported)].value # 100)
                     => FailureShape(ret)

\* compare() raised on a row whose label is past the filtered frame, and
\* process() returned the failure triple of its except clause
C25_Witness ==
    /\ pc = "h_returned"
    /\ Len(log) = 3
    /\ record_col # << >>
    /\ \E i \in 1..Len(self_new) : self_new[i].label >= Len(self_new)
    /\ ret = [output_path |-> None, diff_results |-> None,
              error_message |-> "error while processing"]

-----------------------------------------------------------------------------
(* C26 *)

\* the percentage v was reported
Has(v) == \E i \in 1..Len(Reported) : Reported[i].value = v

\* the run is over and ended with an error: a failure return of process(),
\* or a finished signal of the worker that carries a message
EndedWithError ==
    \/ ProcessReturned /\ ret.error_message # ""
    \/ /\ pc = "w_returned"
       /\ log[Len(log)].signal = "finished"
       /\ log[Len(log)].error_msg # ""

\* C26: within one run of a pipeline (DiffWorker.run, both process()
\* methods) the progress checkpoints are reported in non-decreasing order of
\* percentage, following the phase order read, normalize, diff, write; 100 is
\* reported only after the output file has been written, and never in a run
\* that ends with an error.
C26_ProgressOrdered ==
    /\ \A i \in 1..Len(Reported) : \A j \in i..Len(Reported) :
          Reported[i].value <= Reported[j].value
    /\ Has(40) => Has(20)
    /\ Has(60) => Has(20) /\ (pc \notin {"m_read", "m_compared", "m_returned"}
                               => Has(40))
    /\ Has(80) => Has(60)
    /\ Has(90) => Has(80)
    /\ Has(100) => Has(80) /\ written
    /\ EndedWithError => ~Has(100)

\* the writer raised after the diff: the run ended with an error at 80
C26_Witness ==
    /\ pc = "h_returned"
    /\ ~written
    /\ Len(Reported) = 4
    /\ Reported[4].value = 80
    /\ ret.error_message = "error while processing"

-----------------------------------------------------------------------------
(* C27 *)

\* the results of the change type t
OfType(res, t) == SelectSeq(res, LAMBDA r : r.change_type = t)

\* how many results carry the row as old_data, as new_data
AsOld(res, row) == Len(SelectSeq(res, LAMBDA r : r.old_data = Some(row)))

AsNew(res, row) == Len(SelectSeq(res, LAMBDA r : r.new_data = Some(row)))

\* how many rows of record number of df are the row
RowsLike(df, row) == Len(SelectSeq(Stripped(df), LAMBDA r : r = row))

RowsConserved ==
    /\ Len(OfType(results, "added")) - Len(OfType(results, "deleted"))
          = Len(Stripped(new_df)) - Len(Stripped(old_df))
    /\ \A i \in 1..Len(results) :
          /\ results[i].old_data.some
                => AsOld(results, results[i].old_data.val)
                      <= RowsLike(old_df, results[i].old_data.val)
          /\ results[i].new_data.some
                => AsNew(results, results[i].new_data.val)
                      <= RowsLike(new_df, results[i].new_data.val)

\* C27: row conservation: for any aligned inputs compare() returns, and the
\* number of 'added' results minus the number of 'deleted' results equals
\* the number of new rows with a non-empty record number minus the number of
\* such old rows, and every such old row and every such new row occurs in at
\* most one result.
C27_RowConservation ==
    (Terminated /\ HasRecordColumn) => (pc = "done" /\ RowsConserved)

\* C27, of the calls that return
C27_IfReturned ==
    (pc = "done" /\ HasRecordColumn) => RowsConserved

-----------------------------------------------------------------------------
(* C28 *)

\* a result with 'added' and 'deleted' exchanged and old_data/new_data exchanged
Mirror(r) ==
    [r EXCEPT !.change_type = IF r.change_type = "added" THEN "deleted"
                              ELSE IF r.change_type = "deleted" THEN "added"
                              ELSE r.change_type,
              !.old_data = r.new_data,
              !.new_data = r.old_data]

\* a result without its place in the list
Unplaced(r) == [r EXCEPT !.row_index = 0]

\* how many elements of res are r, places disregarded
Copies(res, r) == Len(SelectSeq(res, LAMBDA x : Unplaced(x) = Unplaced(r)))

\* res1 mirrored and res2 are the same multiset
MirrorsAsMultiset(res1, res2) ==
    LET mirrored == [i \in 1..Len(res1) |-> Mirror(res1[i])]
    IN  /\ Len(res1) = Len(res2)
        /\ \A i \in 1..Len(res2) :
              Copies(mirrored, res2[i]) = Copies(res2, res2[i])

\* DiffEngine(new, old).compare(), whichever order its key set yields
SwappedOutcomes ==
    {CompareOutcome(self_new, self_old, order) :
        order \in IterationOrders(AllRecordNumbers(self_new, self_old))}

SwapMirrors ==
    \A out \in SwappedOutcomes :
        out.exc = "" /\ MirrorsAsMultiset(results, out.results)

\* C28: swapping the inputs mirrors the record diff: compare() of
\* DiffEngine(new, old) and of DiffEngine(old, new) return, and as multisets
\* the results of the first are the results of the second with 'added' and
\* 'deleted' exchanged and old_data/new_data exchanged, each 'changed' result
\* keeping the same changed_columns.
C28_SwapMirrors ==
    (Terminated /\ HasRecordColumn) => (pc = "done" /\ SwapMirrors)

\* C28, of the calls that return; a call that raises raises swapped as well
C28_IfReturned ==
    /\ (pc = "done" /\ HasRecordColumn) => SwapMirrors
    /\ (pc = "raised" /\ HasRecordColumn)
          => \A out \in SwappedOutcomes : out.exc # ""

-----------------------------------------------------------------------------
(* C29 *)

WorkerPlaces ==
    {"w_start", "w_read", "w_norm", "w_constructed", "w_compared", "w_returned"}

\* the places of the log that hold a finished signal
FinishedAt == {i \in 1..Len(log) : log[i].signal = "finished"}

\* C29: every execution of DiffWorker.run emits the finished signal exactly
\* once, as its last emission: with a non-null result and no error message
\* when the output was written, or with a null result and a non-empty error
\* message when reading fails or any step raises; no progress signal is
\* emitted after finished.
C29_FinishedOnceAndLast ==
    /\ (pc \in WorkerPlaces \ {"w_returned"}) => FinishedAt = {}
    /\ pc = "w_returned" =>
          /\ FinishedAt = {Len(log)}
          /\ IF written
             THEN /\ log[Len(log)].result.some
                  /\ log[Len(log)].error_msg = NoMessage
             ELSE /\ log[Len(log)].result = None
                  /\ log[Len(log)].error_msg # ""

\* compare() raised on a label gap: finished carries the error, after 60
C29_Witness ==
    /\ pc = "w_returned"
    /\ ~written
    /\ Len(log) = 7
    /\ log[6] = Progress(60)
    /\ log[7] = Finished(None, ProcessingError)
    /\ exc = ""

-----------------------------------------------------------------------------
(* C30 *)

\* the 0-indexed column at which the block of month m starts in the new sheet
NewBlockStart(m) ==
    BlockStartAt(CHOOSE j \in 1..Len(new_data.month_order) :
                    new_data.month_order[j] = m)

\* the header cell written at row r above column col_offset of the k-th
\* included month
WrittenAbove(k, r, col_offset) ==
    ws[<<r, CATEGORY_COLUMNS + 4 * (k - 1) + col_offset + 1>>]

\* above its four output columns, each included month has the header cells of
\* its own block of the new sheet
HeaderFromOwnBlock ==
    \A k \in 1..Len(month_diffs) : \A r \in 1..HEADER_ROWS : \A off \in 0..3 :
        /\ <<r, CATEGORY_COLUMNS + 4 * (k - 1) + off + 1>> \in DOMAIN ws
        /\ WrittenAbove(k, r, off)
              = header_df[r][NewBlockStart(month_diffs[k].month_name) + off + 1]

\* C30: in the monthly-sales output, for every included month (for any subset
\* of the new sheet's months being included), the header cells written above
\* that month's four output columns are copied from that same month's block
\* columns in the new sheet's header rows, not from the columns of a
\* different month's block.
C30_HeaderFromOwnBlock ==
    pc = "header_done" => HeaderFromOwnBlock

\* C30, of the outputs where the k-th included month is the k-th month of the
\* new sheet
C30_WhenNoMonthOmittedBefore ==
    (/\ pc = "header_done"
     /\ \A k \in 1..Len(month_diffs) :
           month_diffs[k].month_name = new_data.month_order[k])
    => HeaderFromOwnBlock

\* what is written: the month name, and around it the header cells of the
\* k-th block of the new sheet, whichever month that block belongs to
C30_HeaderFromKthBlock ==
    pc = "header_done" =>
        \A k \in 1..Len(month_diffs) : \A r \in 1..HEADER_ROWS : \A off \in 0..3 :
            WrittenAbove(k, r, off)
               = IF r = MONTH_ROW /\ off = 0
                 THEN MonthText(month_diffs[k].month_name)
                 ELSE header_df[r][BlockStartAt(k) + off + 1]

\* the new sheet holds M1 and M2, only M2 is included, and the cell beside
\* its name is the one of M1's block
C30_Misplaced ==
    /\ pc = "header_done"
    /\ new_data.month_order = <<"M1", "M2">>
    /\ Len(month_diffs) = 1
    /\ month_diffs[1].month_name = "M2"
    /\ WrittenAbove(1, 5, 0) = MonthText("M2")
    /\ WrittenAbove(1, 5, 1) = Label(5, 4)
    /\ header_df[5][BlockStartAt(2) + 2] = Label(5, 8)

====
